---- MODULE Spec2Model ----
(***************************************************************************)
(* Batched adaptive binary composition engine of model/treelstm.py        *)
(* (BinaryTreeLSTM.forward, select_composition, update_state and the two  *)
(* compose cells).                                                         *)
(*                                                                         *)
(* Tensors are modelled row by row: a (batch, width) tensor is a function  *)
(* from Rows to sequences, a (batch, width, hidden) tensor likewise with   *)
(* hidden_dim = 1.  Python index j (0-based) is sequence index j + 1.      *)
(* Real numbers are fixed-point integers with unit One; sigmoid and tanh   *)
(* are their piecewise-linear saturating counterparts on that grid.        *)
(*                                                                         *)
(* Two forward passes (Runs) are carried side by side on the same          *)
(* parameters, lengths and valid leaves, so that statements comparing two  *)
(* runs can be checked: run 2 either has the very same input and draws its *)
(* sampling noise from another seed, or has its padding slots refilled     *)
(* with another leaf (twin_input) and draws the same noise (same_seed).    *)
(***************************************************************************)
EXTENDS Integers, Sequences, FiniteSets, TLC

\* ---------------------------------------------------------------- bounds
MaxLen == 3          \* largest max_length = input.size(1)
NumRows == 2         \* batch size
One == 2             \* fixed-point unit (the real number 1.0)

Rows == 1..NumRows
Runs == {1, 2}
None == << >>          \* an absent tensor (Python None)
NoResult == [h |-> None, c |-> None, select_masks |-> << >>]
NoiseHi == 16 * One  \* a Gumbel draw large enough to override any logit
NaN == -1000         \* the float NaN, a value outside the fixed-point range
Unbound == -1        \* a name no value has been assigned to yet

VARIABLES
    max_depth,       \* input.size(1)
    length,          \* length[r]: true length of row r
    training,        \* self.training
    cell_type,       \* self.cell_type
    params,          \* learned parameters (compose cell, comp_query, base)
    intra_attention, \* self.intra_attention
    debug,           \* conf.debug
    twin_input,      \* whether run 2 refills its padding slots, and with what leaf
    same_seed,       \* both runs draw the same sampling noise
    input,           \* input[run][r]: leaf states of row r
    i,               \* loop counter of forward
    pc,              \* "idle" | "loop" | "done" | "assert_failed" | "raised"
    state,           \* state[run] = [h, c, lens]
    select_masks,    \* select_masks[run]: list of recorded select_mask
    nodes,           \* nodes[run][r]: hidden vectors collected for the pooling
    scorer_calls,    \* scorer_calls[run][r]: scorer evaluations covering row r
    result,          \* result[run]: value returned by forward
    loop_pc,         \* the loop of the training script the next batch comes from
    is_training,     \* argument of the run_iter call in progress
    routed_sel,      \* select_composition alone: the select_mask of one row
    routed_masks,    \* select_composition alone: its left_mask and right_mask
    script_name,     \* the training function whose batch loop runs
    loader_epoch,    \* how train_loader.epoch reports progress (sst)
    num_train_batches, \* batches per epoch
    max_epoch,       \* args.max_epoch
    epoch_num,       \* counter of the outer loop, where there is one
    batch_iter,      \* counter of the loop over the training batches
    best_vaild_accuacy, \* best validation accuracy so far
    valid_accuracy,  \* validation accuracy of the latest validation
    train_pc,        \* "off" | "batch" | "after_batch" | "stopped" | "crashed"
    validations,     \* number of runs of the validation block
    checkpoints,     \* validation accuracies of the checkpoints saved
    test_evals,      \* number of evaluations of the test set
    rl_pc,           \* "off" | "batch" | "done": the multi-sample training step
    label,           \* label[r]: gold label of batch row r
    sample_num,      \* args.sample_num
    sample_label_pred, \* sample_logits.max(1)[1], one prediction a sampled tree
    probs,           \* probs[k]: the dicts word -> log-probabilities of sample k
    sample_label_gt, \* the labels expanded to one a sampled tree
    rl_rewards,      \* rl_rewards[k]: reward of sample k
    final_probs      \* final_probs[w]: the weighted log-probabilities of word w

\* the batch handed to forward
batch == <<max_depth, length, twin_input, same_seed, input>>
\* the module's configuration and parameters, and conf
module == <<training, cell_type, params, intra_attention, debug>>
\* the locals of forward
locals == <<i, pc, state, select_masks, nodes, scorer_calls, result>>
\* the training script
script == <<loop_pc, is_training>>

\* select_composition called on its own
routing == <<routed_sel, routed_masks>>
\* what lies outside a call of forward and the scripts' batch loops
\* the batch loop of a training function
trainer == <<script_name, loader_epoch, num_train_batches, max_epoch, epoch_num,
             batch_iter, best_vaild_accuacy, valid_accuracy, train_pc, validations,
             checkpoints, test_evals>>
\* the multi-sample training step
rl == <<rl_pc, label, sample_num, sample_label_pred, probs, sample_label_gt,
        rl_rewards, final_probs>>
harness == <<routing, trainer, rl>>

vars == <<batch, module, locals, script, harness>>

\* ------------------------------------------------------- inputs, parameters
\* leaf states the leaf encoder produces for the words of a sentence
Leaves == <<[h |-> 1, c |-> One], [h |-> -One, c |-> -1], [h |-> One, c |-> 0]>>
LeafNodes == {Leaves[k] : k \in 1..Len(Leaves)}

\* the sentences fed to forward: the leaves in rotation, from either start;
\* the slots beyond a row's true length carry on with the rotation
Sentence(start, n) == [j \in 1..n |-> Leaves[((start + j) % Len(Leaves)) + 1]]
Sentences(n) == {Sentence(start, n) : start \in {0, 1}}

\* leaf states run 2 may carry in its padding slots instead
PadLeaves == {[h |-> 0, c |-> 0], [h |-> -1, c |-> One]}
TwinInputs ==
    {[refill |-> FALSE, leaf |-> [h |-> 0, c |-> 0]]}
        \cup {[refill |-> TRUE, leaf |-> l] : l \in PadLeaves}

\* comp_linear as one (w_left, w_right, bias) triple per output chunk
ParamSets ==
    { [ cell_type |-> "treelstm",
        lstm   |-> [i |-> <<1, 1, 0>>, fl |-> <<1, 0, 0>>, fr |-> <<0, 1, 0>>,
                    u |-> <<2, -1, 1>>, o |-> <<1, 1, One>>],
        simple |-> <<1, -1, 0>>,
        comp_query |-> 1,
        weighted_by_interval_length |-> FALSE,
        log_base |-> 0 ],
      [ cell_type |-> "simple",
        lstm   |-> [i |-> <<-1, 2, 1>>, fl |-> <<0, 1, -1>>, fr |-> <<1, 0, 0>>,
                    u |-> <<1, 1, 0>>, o |-> <<2, 1, 0>>],
        simple |-> <<1, 2, 1>>,
        comp_query |-> -1,
        weighted_by_interval_length |-> TRUE,
        log_base |-> 1 ] }

\* ------------------------------------------------------------- arithmetic
Clamp(x, lo, hi) == IF x < lo THEN lo ELSE IF x > hi THEN hi ELSE x
Sigmoid(x) == Clamp((x + One) \div 2, 0, One)
Tanh(x) == Clamp(x, -One, One)
Mul(a, b) == (a * b) \div One
Linear(w, hl, hr) == w[1] * hl + w[2] * hr + w[3]

\* the sequence <<F(1), ..., F(n)>>
RECURSIVE Tabulate(_, _)
Tabulate(F(_), n) == IF n <= 0 THEN << >> ELSE Append(Tabulate(F, n - 1), F(n))
PerRow(F(_)) == Tabulate(F, NumRows)
PerRun(F(_)) == Tabulate(F, 2)

RECURSIVE SumTo(_, _)
SumTo(v, j) == IF j = 0 THEN 0 ELSE v[j] + SumTo(v, j - 1)
RECURSIVE Cumsum(_)
Cumsum(v) ==
    IF Len(v) = 0 THEN << >>
    ELSE LET init == Cumsum(SubSeq(v, 1, Len(v) - 1))
         IN Append(init, (IF Len(init) = 0 THEN 0 ELSE init[Len(init)]) + v[Len(v)])
SumSeq(v) == SumTo(v, Len(v))
DropLast(v) == SubSeq(v, 1, Len(v) - 1)
DropFirst(v) == SubSeq(v, 2, Len(v))
OneHot(k, n) == Tabulate(LAMBDA j : IF j = k THEN 1 ELSE 0, n)

\* ----------------------------------------------------------- compose cells
\* the cell that hands on the span of the left child alone
BinaryTreeLSTMLayerLeftSpan(p, l, r) ==
    LET w == p.lstm
        gi == Linear(w.i, l.h, r.h)
        fl == Linear(w.fl, l.h, r.h)
        fr == Linear(w.fr, l.h, r.h)
        u == Linear(w.u, l.h, r.h)
        o == Linear(w.o, l.h, r.h)
        c == Mul(l.c, Sigmoid(fl + One)) + Mul(r.c, Sigmoid(fr + One))
             + Mul(Tanh(u), Sigmoid(gi))
    IN [h |-> Mul(Sigmoid(o), Tanh(c)), c |-> c, lens |-> l.lens]

BinaryTreeLSTMLayer(p, l, r) ==
    LET w == p.lstm
        gi == Linear(w.i, l.h, r.h)
        fl == Linear(w.fl, l.h, r.h)
        fr == Linear(w.fr, l.h, r.h)
        u == Linear(w.u, l.h, r.h)
        o == Linear(w.o, l.h, r.h)
        c == Mul(l.c, Sigmoid(fl + One)) + Mul(r.c, Sigmoid(fr + One))
             + Mul(Tanh(u), Sigmoid(gi))
    IN [h |-> Mul(Sigmoid(o), Tanh(c)), c |-> c, lens |-> l.lens + r.lens]

SimpleLayer(p, l, r) ==
    [h |-> Sigmoid(Linear(p.simple, l.h, r.h)), c |-> None,
     lens |-> l.lens + r.lens]

ComposeCell(ct, p, l, r) ==
    IF ct = "treelstm" THEN BinaryTreeLSTMLayer(p, l, r)
    ELSE SimpleLayer(p, l, r)

Width(st) == Len(st.lens[1])
NodeAt(st, r, j) ==
    [h |-> st.h[r][j], c |-> IF st.c = None THEN None ELSE st.c[r][j],
     lens |-> st.lens[r][j]]

\* forward: l = state[:, :-1], r = state[:, 1:], new_state = treelstm_layer(l, r)
TreeLayer(ct, p, st) ==
    LET n == Width(st)
        parent == PerRow(LAMBDA r : Tabulate(LAMBDA j :
                     ComposeCell(ct, p, NodeAt(st, r, j), NodeAt(st, r, j + 1)), n - 1))
    IN [h |-> PerRow(LAMBDA r : Tabulate(LAMBDA j : parent[r][j].h, n - 1)),
        c |-> IF ct = "treelstm"
              THEN PerRow(LAMBDA r : Tabulate(LAMBDA j : parent[r][j].c, n - 1))
              ELSE None,
        lens |-> PerRow(LAMBDA r : Tabulate(LAMBDA j : parent[r][j].lens, n - 1))]

\* ------------------------------------------------------- selection policy
\* basic.sequence_mask: position j (0-based) is valid iff j < sequence_length
SequenceMask(len, max_length) ==
    Tabulate(LAMBDA j : IF j <= len THEN 1 ELSE 0, max_length)

\* basic.dot_nd: one scalar per candidate, query . candidate; a NaN operand
\* makes the product NaN
DotNd(query, candidates) ==
    Tabulate(LAMBDA j : IF query = NaN \/ candidates[j] = NaN THEN NaN
                        ELSE query * candidates[j],
             Len(candidates))

\* length prior added to the raw score: log(base) * span_length
EffLogits(logits, use_weight, weights, log_base) ==
    Tabulate(LAMBDA j : logits[j] + (IF use_weight THEN log_base * weights[j] ELSE 0),
             Len(logits))

\* arg-max over the candidates the mask leaves selectable, first occurrence
\* on ties; a row with no selectable candidate has all-equal probabilities
\* and yields index 0
ArgMaxMasked(y, mask) ==
    LET valid == {j \in 1..Len(y) : mask[j] = 1}
    IN IF valid = {} THEN 1
       ELSE CHOOSE j \in valid :
                \A k \in valid : y[k] < y[j] \/ (y[k] = y[j] /\ j <= k)

GreedySelect(logits, mask, use_weight, weights, log_base) ==
    OneHot(ArgMaxMasked(EffLogits(logits, use_weight, weights, log_base), mask),
           Len(logits))

\* straight-through Gumbel-softmax: forward value is the one-hot of the
\* arg-max of the noisy masked logits
StGumbelSoftmax(logits, gumbel_noise, mask, use_weight, weights, log_base) ==
    LET eff == EffLogits(logits, use_weight, weights, log_base)
    IN OneHot(ArgMaxMasked(Tabulate(LAMBDA j : eff[j] + gumbel_noise[j], Len(logits)),
                           mask),
              Len(logits))

\* Gumbel noise of a row: dominant at candidate k, negligible elsewhere
Gumbel(k, n) == Tabulate(LAMBDA j : IF j = k THEN NoiseHi ELSE 0, n)

\* ------------------------------------------------------ select_composition
\* line 157: the scores of every candidate of every row
CompWeights(p, new_state) ==
    PerRow(LAMBDA r : DotNd(p.comp_query, new_state.h[r]))

\* np.isnan(comp_weights).any()
HasNaN(comp_weights) ==
    \E r \in Rows : \E j \in 1..Len(comp_weights[r]) : comp_weights[r][j] = NaN

\* the check left out
ScorerRaisesNever(dbg, comp_weights) == FALSE
\* lines 158-162
ScorerRaises(dbg, comp_weights) == dbg /\ HasNaN(comp_weights)

\* the selection policy of the other mode
SelectMaskSwapped(tr, p, new_state, mask, noise) ==
    PerRow(LAMBDA r :
        LET comp_weights == DotNd(p.comp_query, new_state.h[r])
        IN IF ~tr
           THEN StGumbelSoftmax(comp_weights, Gumbel(noise[r], Len(mask[r])), mask[r],
                                p.weighted_by_interval_length,
                                new_state.lens[r], p.log_base)
           ELSE GreedySelect(comp_weights, mask[r],
                             p.weighted_by_interval_length,
                             new_state.lens[r], p.log_base))

\* lines 157-177: scorer, then the selection policy of the current mode
SelectMask(tr, p, new_state, mask, noise) ==
    PerRow(LAMBDA r :
        LET comp_weights == DotNd(p.comp_query, new_state.h[r])
        IN IF tr
           THEN StGumbelSoftmax(comp_weights, Gumbel(noise[r], Len(mask[r])), mask[r],
                                p.weighted_by_interval_length,
                                new_state.lens[r], p.log_base)
           ELSE GreedySelect(comp_weights, mask[r],
                             p.weighted_by_interval_length,
                             new_state.lens[r], p.log_base))

\* lines 179-186
\* left mask taken before the selected position is counted
LeftMaskExclusive(select_mask) ==
    LET cum == Cumsum(select_mask)
    IN Tabulate(LAMBDA j : IF j = 1 THEN 1 ELSE 1 - cum[j - 1], Len(select_mask))
LeftMask(select_mask) ==
    LET cum == Cumsum(select_mask)
    IN Tabulate(LAMBDA j : 1 - cum[j], Len(select_mask))
\* the prefix sum used without the shift by one
RightMaskUnshifted(select_mask) == Cumsum(select_mask)
RightMask(select_mask) ==
    LET cum == Cumsum(select_mask)
    IN Tabulate(LAMBDA j : IF j = 1 THEN 0 ELSE cum[j - 1], Len(select_mask))

\* lines 187-194: sel * new + left * old[:-1] + right * old[1:]
Blend(select_mask, left, right, new, old) ==
    LET old_left == DropLast(old)
        old_right == DropFirst(old)
    IN Tabulate(LAMBDA j : select_mask[j] * new[j] + left[j] * old_left[j]
                           + right[j] * old_right[j],
                Len(new))

Route(old_state, new_state, select_mask) ==
    LET left == PerRow(LAMBDA r : LeftMask(select_mask[r]))
        right == PerRow(LAMBDA r : RightMask(select_mask[r]))
        blend(r, new, old) == Blend(select_mask[r], left[r], right[r], new[r], old[r])
    IN [h |-> PerRow(LAMBDA r : blend(r, new_state.h, old_state.h)),
        c |-> IF new_state.c = None THEN None
              ELSE PerRow(LAMBDA r : blend(r, new_state.c, old_state.c)),
        lens |-> PerRow(LAMBDA r : blend(r, new_state.lens, old_state.lens))]

\* line 195: (select_mask * new_h).sum(1), new_h being the routed array
SelectedH(select_mask, new_h) ==
    PerRow(LAMBDA r :
        SumSeq(Tabulate(LAMBDA j : select_mask[r][j] * new_h[r][j], Len(new_h[r]))))

SelectComposition(tr, p, old_state, new_state, mask, noise) ==
    LET select_mask == SelectMask(tr, p, new_state, mask, noise)
        routed == Route(old_state, new_state, select_mask)
    IN [new_state |-> routed,
        select_mask |-> select_mask,
        selected_h |-> SelectedH(select_mask, routed.h)]

\* ------------------------------------------------------------ update_state
\* the blend that hands a finished row on with all its old slots
UpdateStateKeepsWidth(old_state, new_state, done_mask) ==
    LET mix(r, new, old) ==
            IF done_mask[r] = 1 THEN new[r] ELSE old[r]
    IN [h |-> PerRow(LAMBDA r : mix(r, new_state.h, old_state.h)),
        c |-> IF new_state.c = None THEN None
              ELSE PerRow(LAMBDA r : mix(r, new_state.c, old_state.c)),
        lens |-> PerRow(LAMBDA r : mix(r, new_state.lens, old_state.lens))]

\* the blend with the two branches exchanged
UpdateStateSwapped(old_state, new_state, done_mask) ==
    LET mix(r, new, old) ==
            Tabulate(LAMBDA j : (1 - done_mask[r]) * new[r][j]
                                + done_mask[r] * old[r][j],
                     Len(new[r]))
    IN [h |-> PerRow(LAMBDA r : mix(r, new_state.h, old_state.h)),
        c |-> IF new_state.c = None THEN None
              ELSE PerRow(LAMBDA r : mix(r, new_state.c, old_state.c)),
        lens |-> PerRow(LAMBDA r : mix(r, new_state.lens, old_state.lens))]

UpdateState(old_state, new_state, done_mask) ==
    LET mix(r, new, old) ==
            Tabulate(LAMBDA j : done_mask[r] * new[r][j]
                                + (1 - done_mask[r]) * old[r][j],
                     Len(new[r]))
    IN [h |-> PerRow(LAMBDA r : mix(r, new_state.h, old_state.h)),
        c |-> IF new_state.c = None THEN None
              ELSE PerRow(LAMBDA r : mix(r, new_state.c, old_state.c)),
        lens |-> PerRow(LAMBDA r : mix(r, new_state.lens, old_state.lens))]

\* ----------------------------------------------------------------- forward
LengthMask == PerRow(LAMBDA r : SequenceMask(length[r], max_depth))

\* one pass too few
LoopBoundShort(md) == md - 2
\* for i in range(max_depth - 1)
LoopBound(md) == md - 1

\* the slice length_mask[:, i:-1], one column too far to the left
CandidateMaskEarly(length_mask, it) ==
    PerRow(LAMBDA r : SubSeq(length_mask[r], it + 1, Len(length_mask[r]) - 1))
\* mask = length_mask[:, i+1:]
CandidateMask(length_mask, it) ==
    PerRow(LAMBDA r : SubSeq(length_mask[r], it + 2, Len(length_mask[r])))

\* the column length_mask[:, i]
DoneMaskEarly(length_mask, it) == PerRow(LAMBDA r : length_mask[r][it + 1])
\* done_mask = length_mask[:, i+1]
DoneMask(length_mask, it) == PerRow(LAMBDA r : length_mask[r][it + 2])

\* state = (hs, cs, interval_lens), interval_lens = length_mask.float()
InitialState(leaves, length_mask) ==
    [h |-> PerRow(LAMBDA r : Tabulate(LAMBDA j : leaves[r][j].h, Len(leaves[r]))),
     c |-> PerRow(LAMBDA r : Tabulate(LAMBDA j : leaves[r][j].c, Len(leaves[r]))),
     lens |-> length_mask]

\* the pass that appends the left routing mask instead of the selection
StepSelectRecordsLeft(old, noise) ==
    LET composed == TreeLayer(cell_type, params, old)
        sel == SelectComposition(training, params, old, composed,
                                 CandidateMask(LengthMask, i), noise)
    IN [state |-> UpdateState(old, sel.new_state, DoneMask(LengthMask, i)),
        select_mask |-> PerRow(LAMBDA r : LeftMask(sel.select_mask[r])),
        selected_h |-> sel.selected_h]

\* one pass of the loop body with i < max_depth - 2
StepSelect(old, noise) ==
    LET composed == TreeLayer(cell_type, params, old)
        sel == SelectComposition(training, params, old, composed,
                                 CandidateMask(LengthMask, i), noise)
    IN [state |-> UpdateState(old, sel.new_state, DoneMask(LengthMask, i)),
        select_mask |-> sel.select_mask,
        selected_h |-> sel.selected_h]

\* the last pass handing on the left child in place of the parent
StepLastKeepsLeft(old) ==
    UpdateState(old,
                [h |-> PerRow(LAMBDA r : DropLast(old.h[r])),
                 c |-> IF old.c = None THEN None
                       ELSE PerRow(LAMBDA r : DropLast(old.c[r])),
                 lens |-> PerRow(LAMBDA r : DropLast(old.lens[r]))],
                DoneMask(LengthMask, i))

\* the last pass, i = max_depth - 2: no selection
StepLast(old) ==
    UpdateState(old, TreeLayer(cell_type, params, old), DoneMask(LengthMask, i))

\* ---------------------------------------------------------- intra-attention
\* the mask built from length_mask[:, :-1] instead
AttMaskUnshifted(length_mask) ==
    PerRow(LAMBDA r : length_mask[r] \o DropLast(length_mask[r]))
\* line 279: att_mask = cat([length_mask, length_mask[:, 1:]])
AttMask(length_mask) ==
    PerRow(LAMBDA r : length_mask[r] \o DropFirst(length_mask[r]))

\* exponential on the fixed-point grid: its tangent at 0, kept positive
Exp(x) == IF One + x < 1 THEN 1 ELSE One + x

\* basic.masked_softmax: masked positions weigh nothing, the others share One
MaskedSoftmax(logits, mask) ==
    LET e == Tabulate(LAMBDA j : mask[j] * Exp(logits[j]), Len(logits))
        total == SumSeq(e)
    IN Tabulate(LAMBDA j : IF total = 0 THEN 0 ELSE (One * e[j]) \div total,
                Len(logits))

\* lines 282-294: the masked nodes, scored against their mean and summed with
\* the soft-max weights
Pool(all_nodes, att_mask) ==
    PerRow(LAMBDA r :
        LET n == Len(all_nodes[r])
            masked == Tabulate(LAMBDA j : all_nodes[r][j] * att_mask[r][j], n)
            nodes_mean == SumSeq(masked) \div n
            att_weights == MaskedSoftmax(
                Tabulate(LAMBDA j : Mul(masked[j], nodes_mean), n), att_mask[r])
        IN SumSeq(Tabulate(LAMBDA j : Mul(att_weights[j], masked[j]), n)))

\* the noise of run 1, one dominant candidate per row (on a masked candidate
\* it leaves the sample to the logits); evaluation mode draws none, its
\* generator stays where it is
NoiseChoices(n) ==
    IF training THEN [Rows -> 1..n] ELSE {PerRow(LAMBDA r : 1)}

\* the noise of run 2: another seed, another dominant candidate
TwinNoise(noise, n) ==
    IF same_seed THEN noise ELSE PerRow(LAMBDA r : (noise[r] % n) + 1)

\* the rows of a batch are interchangeable: batches are listed longest row
\* first
SortedLengths(md) ==
    {len \in [Rows -> 1..md] : \A r \in Rows : r = 1 \/ len[r - 1] >= len[r]}

\* the leaves of the two runs: run 2 carries the leaves of run 1, its padding
\* slots refilled when tw says so
TwinBatch(leaves, len, md, tw) ==
    <<leaves,
      PerRow(LAMBDA r : Tabulate(LAMBDA j :
          IF j <= len[r] \/ ~tw.refill THEN leaves[r][j] ELSE tw.leaf, md))>>

\* nodes = [], and nodes.append(state[0]) with intra_attention
InitialNodes(intra, leaves) ==
    PerRow(LAMBDA r :
        IF intra THEN Tabulate(LAMBDA j : leaves[r][j].h, Len(leaves[r])) ELSE << >>)

\* select_composition is not called on its own
RoutingIdle == routed_sel = None /\ routed_masks = None
\* no training function runs its batch loop
TrainerIdle ==
    /\ script_name = "none"
    /\ loader_epoch = "none"
    /\ num_train_batches = 0
    /\ max_epoch = 0
    /\ epoch_num = 0
    /\ batch_iter = 0
    /\ best_vaild_accuacy = 0
    /\ valid_accuracy = Unbound
    /\ train_pc = "off"
    /\ validations = 0
    /\ checkpoints = << >>
    /\ test_evals = 0
\* the keys of the dicts of log-probabilities
Words == {"a", "b"}
\* defaultdict(list) before its first use
NoProbs == [w \in Words |-> << >>]
RlIdle ==
    /\ rl_pc = "off"
    /\ label = << >>
    /\ sample_num = 0
    /\ sample_label_pred = << >>
    /\ probs = << >>
    /\ sample_label_gt = << >>
    /\ rl_rewards = << >>
    /\ final_probs = NoProbs
HarnessIdle == RoutingIdle /\ TrainerIdle /\ RlIdle

\* lines 202-252: the locals of forward when the loop is entered
Begin ==
    /\ i = 0
    /\ pc = "loop"
    /\ state = PerRun(LAMBDA run : InitialState(input[run], LengthMask))
    /\ select_masks = PerRun(LAMBDA run : << >>)
    /\ nodes = PerRun(LAMBDA run : InitialNodes(intra_attention, input[run]))
    /\ scorer_calls = PerRun(LAMBDA run : PerRow(LAMBDA r : 0))
    /\ result = PerRun(LAMBDA run : NoResult)

\* one call of forward on a well-formed batch, intra_attention and conf.debug
\* off
Init ==
    /\ max_depth \in 1..MaxLen
    /\ length \in SortedLengths(max_depth)
    /\ training \in BOOLEAN
    /\ params \in ParamSets
    /\ cell_type = params.cell_type
    /\ intra_attention = FALSE
    /\ debug = FALSE
    /\ twin_input \in TwinInputs
    /\ same_seed = twin_input.refill
    /\ \E leaves \in [Rows -> Sentences(max_depth)] :
          input = TwinBatch(leaves, length, max_depth, twin_input)
    /\ Begin
    /\ loop_pc = "none"
    /\ is_training = training
    /\ HarnessIdle

IterSelect ==
    /\ pc = "loop"
    /\ i < LoopBound(max_depth)
    /\ i < max_depth - 2
    /\ ~ScorerRaises(debug, CompWeights(params,
                                        TreeLayer(cell_type, params, state[1])))
    /\ \E noise \in NoiseChoices(max_depth - i - 1) :
       \E step \in {<<StepSelect(state[1], noise),
                      StepSelect(state[2], TwinNoise(noise, max_depth - i - 1))>>} :
          /\ state' = PerRun(LAMBDA run : step[run].state)
          /\ select_masks' = PerRun(LAMBDA run :
                Append(select_masks[run], step[run].select_mask))
          /\ nodes' = PerRun(LAMBDA run : PerRow(LAMBDA r :
                IF intra_attention
                THEN Append(nodes[run][r], step[run].selected_h[r])
                ELSE nodes[run][r]))
    /\ scorer_calls' = PerRun(LAMBDA run : PerRow(LAMBDA r : scorer_calls[run][r] + 1))
    /\ i' = i + 1
    /\ UNCHANGED <<batch, module, script, harness, pc, result>>

\* lines 157-162 with conf.debug on and a NaN among the scores: the message,
\* the interactive shell (left without touching the tensors) and the raise
RaiseNaN ==
    /\ pc = "loop"
    /\ i < LoopBound(max_depth)
    /\ i < max_depth - 2
    /\ ScorerRaises(debug, CompWeights(params,
                                       TreeLayer(cell_type, params, state[1])))
    /\ scorer_calls' = PerRun(LAMBDA run : PerRow(LAMBDA r : scorer_calls[run][r] + 1))
    /\ pc' = "raised"
    /\ UNCHANGED <<batch, module, script, harness, i, state, select_masks, nodes, result>>

\* the last pass, rescaling the base of the length prior in place
IterLastRescalesBase ==
    /\ pc = "loop"
    /\ i < LoopBound(max_depth)
    /\ ~(i < max_depth - 2)
    /\ state' = PerRun(LAMBDA run : StepLast(state[run]))
    /\ nodes' = PerRun(LAMBDA run : PerRow(LAMBDA r :
          IF intra_attention
          THEN nodes[run][r] \o state'[run].h[r]
          ELSE nodes[run][r]))
    /\ i' = i + 1
    /\ params' = [params EXCEPT !.log_base = @ + 1]
    /\ UNCHANGED <<batch, training, cell_type, intra_attention, debug, script, harness,
                   pc, select_masks, scorer_calls, result>>

\* the last pass, recording the only possible selection as well
IterLastRecording ==
    /\ pc = "loop"
    /\ i < LoopBound(max_depth)
    /\ ~(i < max_depth - 2)
    /\ state' = PerRun(LAMBDA run : StepLast(state[run]))
    /\ nodes' = PerRun(LAMBDA run : PerRow(LAMBDA r :
          IF intra_attention
          THEN nodes[run][r] \o state'[run].h[r]
          ELSE nodes[run][r]))
    /\ select_masks' = PerRun(LAMBDA run :
          Append(select_masks[run], PerRow(LAMBDA r : OneHot(1, 1))))
    /\ i' = i + 1
    /\ UNCHANGED <<batch, module, script, harness, pc, scorer_calls, result>>

IterLast ==
    /\ pc = "loop"
    /\ i < LoopBound(max_depth)
    /\ ~(i < max_depth - 2)
    /\ state' = PerRun(LAMBDA run : StepLast(state[run]))
    /\ nodes' = PerRun(LAMBDA run : PerRow(LAMBDA r :
          IF intra_attention
          THEN nodes[run][r] \o state'[run].h[r]
          ELSE nodes[run][r]))
    /\ i' = i + 1
    /\ UNCHANGED <<batch, module, script, harness, pc, select_masks, scorer_calls,
                   result>>

\* lines 277-299; the result carries select_masks, which the caller receives
\* with return_select_masks
Return ==
    /\ pc = "loop"
    /\ ~(i < LoopBound(max_depth))
    /\ IF /\ intra_attention
          /\ \E run \in Runs : \E r \in Rows :
                Len(nodes[run][r]) # Len(AttMask(LengthMask)[r])
       THEN /\ pc' = "raised"
            /\ UNCHANGED result
       ELSE IF \A run \in Runs :
                 /\ intra_attention \/ Len(state[run].h[1]) = 1
                 /\ (state[run].c = None \/ Len(state[run].c[1]) = 1)
            THEN /\ pc' = "done"
                 /\ result' = PerRun(LAMBDA run :
                       [h |-> IF intra_attention
                              THEN Pool(nodes[run], AttMask(LengthMask))
                              ELSE PerRow(LAMBDA r : state[run].h[r][1]),
                        c |-> state[run].c,
                        select_masks |-> select_masks[run]])
            ELSE /\ pc' = "assert_failed"
                 /\ UNCHANGED result
    /\ UNCHANGED <<batch, module, script, harness, i, state, select_masks, nodes,
                   scorer_calls>>

Next == IterSelect \/ IterLast \/ Return

Spec == Init /\ [][Next]_vars

\* ------------------------------------- forward under every configuration
\* parameter sets whose scorer query has diverged to NaN
NaNParamSets == {[p EXCEPT !.comp_query = NaN] : p \in ParamSets}

\* one call of forward on a well-formed batch, with intra_attention and
\* conf.debug on or off; the query is NaN only in runs with conf.debug on.
\* Both runs read the same input and the same parameters, so the scorer's
\* check has the same outcome in both.
InitConfig ==
    /\ max_depth \in 1..MaxLen
    /\ length \in SortedLengths(max_depth)
    /\ training \in BOOLEAN
    /\ intra_attention \in BOOLEAN
    /\ debug \in BOOLEAN
    /\ params \in ParamSets \cup (IF debug THEN NaNParamSets ELSE {})
    /\ cell_type = params.cell_type
    /\ twin_input = [refill |-> FALSE, leaf |-> [h |-> 0, c |-> 0]]
    /\ same_seed = twin_input.refill
    /\ \E leaves \in [Rows -> Sentences(max_depth)] :
          input = TwinBatch(leaves, length, max_depth, twin_input)
    /\ Begin
    /\ loop_pc = "none"
    /\ is_training = training
    /\ HarnessIdle

NextConfig == IterSelect \/ RaiseNaN \/ IterLast \/ Return

SpecConfig == InitConfig /\ [][NextConfig]_vars

\* ------------------------------------------------------ training scripts
\* run_iter without its call of model.train
ModelTrainStale(current, mode) == current
\* model.train(is_training): self.training = is_training
ModelTrain(current, mode) == mode

\* the loops of sst/train.py and snli/train.py a batch can come from after a
\* batch of loop from: the next training batch; the validation batches when
\* (batch_iter + 1) % validate_every = 0; the test batches when the
\* validation accuracy is the best so far
NextLoops(from) ==
    IF from = "train" THEN {"train", "valid"}
    ELSE IF from = "valid" THEN {"valid", "test", "train"}
    ELSE {"test", "train"}

\* the training script before its first batch: the module is in training
\* mode as constructed, forward has no locals yet
InitLoop ==
    /\ max_depth = 0
    /\ length = PerRow(LAMBDA r : 0)
    /\ training = TRUE
    /\ params \in ParamSets
    /\ cell_type = params.cell_type
    /\ intra_attention = FALSE
    /\ debug = FALSE
    /\ twin_input = [refill |-> FALSE, leaf |-> [h |-> 0, c |-> 0]]
    /\ same_seed = twin_input.refill
    /\ input = PerRun(LAMBDA run : PerRow(LAMBDA r : << >>))
    /\ i = 0
    /\ pc = "idle"
    /\ state = PerRun(LAMBDA run : [h |-> PerRow(LAMBDA r : << >>),
                                    c |-> PerRow(LAMBDA r : << >>),
                                    lens |-> PerRow(LAMBDA r : << >>)])
    /\ select_masks = PerRun(LAMBDA run : << >>)
    /\ nodes = PerRun(LAMBDA run : PerRow(LAMBDA r : << >>))
    /\ scorer_calls = PerRun(LAMBDA run : PerRow(LAMBDA r : 0))
    /\ result = PerRun(LAMBDA run : NoResult)
    /\ loop_pc = "train"
    /\ is_training = TRUE
    /\ HarnessIdle

\* run_iter(batch, is_training) up to the loop of forward: model.train, then
\* the encoder's forward on the batch (SNLI encodes premise and hypothesis
\* in the same call, under the same mode)
RunIter ==
    /\ pc = "idle"
    /\ is_training' = (loop_pc = "train")
    /\ training' = ModelTrain(training, loop_pc = "train")
    /\ \E md \in 1..MaxLen : \E len \in SortedLengths(md) :
       \E leaves \in [Rows -> Sentences(md)] :
          LET length_mask == PerRow(LAMBDA r : SequenceMask(len[r], md))
              twins == TwinBatch(leaves, len, md, twin_input)
          IN /\ max_depth' = md
             /\ length' = len
             /\ input' = twins
             /\ state' = PerRun(LAMBDA run : InitialState(twins[run], length_mask))
             /\ nodes' = PerRun(LAMBDA run : InitialNodes(intra_attention, twins[run]))
    /\ i' = 0
    /\ pc' = "loop"
    /\ select_masks' = PerRun(LAMBDA run : << >>)
    /\ scorer_calls' = PerRun(LAMBDA run : PerRow(LAMBDA r : 0))
    /\ result' = PerRun(LAMBDA run : NoResult)
    /\ UNCHANGED <<twin_input, same_seed, cell_type, params, intra_attention,
                   debug, loop_pc, harness>>

\* the rest of run_iter and the script's choice of the next batch: the
\* optimizer's step after a training batch
EndIter ==
    /\ pc = "done"
    /\ params' \in IF is_training
                   THEN {p \in ParamSets : p.cell_type = cell_type}
                   ELSE {params}
    /\ loop_pc' \in NextLoops(loop_pc)
    /\ pc' = "idle"
    \* run_iter has returned: the batch and the locals of forward are gone
    /\ max_depth' = 0
    /\ length' = PerRow(LAMBDA r : 0)
    /\ input' = PerRun(LAMBDA run : PerRow(LAMBDA r : << >>))
    /\ i' = 0
    /\ state' = PerRun(LAMBDA run : [h |-> PerRow(LAMBDA r : << >>),
                                     c |-> PerRow(LAMBDA r : << >>),
                                     lens |-> PerRow(LAMBDA r : << >>)])
    /\ select_masks' = PerRun(LAMBDA run : << >>)
    /\ nodes' = PerRun(LAMBDA run : PerRow(LAMBDA r : << >>))
    /\ scorer_calls' = PerRun(LAMBDA run : PerRow(LAMBDA r : 0))
    /\ result' = PerRun(LAMBDA run : NoResult)
    /\ UNCHANGED <<twin_input, same_seed, training, cell_type, intra_attention,
                   debug, is_training, harness>>

NextLoop == RunIter \/ IterSelect \/ IterLast \/ Return \/ EndIter

SpecLoop == InitLoop /\ [][NextLoop]_vars

\* ------------------------------------------- forward on an ill-formed batch
\* the lengths of a batch whose first row claims one leaf more than the
\* array holds
OverlongLengths(md) ==
    {len \in [Rows -> 1..(md + 1)] :
        /\ len[1] = md + 1
        /\ \A r \in Rows : r = 1 \/ len[r - 1] >= len[r]}

\* one call of forward with length[1] > input.size(1)
InitOverlong ==
    /\ max_depth \in 1..MaxLen
    /\ length \in OverlongLengths(max_depth)
    /\ training \in BOOLEAN
    /\ params \in ParamSets
    /\ cell_type = params.cell_type
    /\ intra_attention = FALSE
    /\ debug = FALSE
    /\ twin_input = [refill |-> FALSE, leaf |-> [h |-> 0, c |-> 0]]
    /\ same_seed = twin_input.refill
    /\ \E leaves \in [Rows -> Sentences(max_depth)] :
          input = TwinBatch(leaves, length, max_depth, twin_input)
    /\ Begin
    /\ loop_pc = "none"
    /\ is_training = training
    /\ HarnessIdle

SpecOverlong == InitOverlong /\ [][Next]_vars

\* ------------------------------------------- forward on the worked example
\* hidden values of the four leaves of the example row
ExampleHidden == <<1, 2, 3, 4>>
ExampleRow == Tabulate(LAMBDA j : [h |-> ExampleHidden[j] * One, c |-> 0],
                       Len(ExampleHidden))

\* the simple cell sigmoid(l + r) of the example, beside the parameter sets
\* of the other runs
ExampleParamSets ==
    {[p EXCEPT !.simple = <<1, 1, 0>>] : p \in {q \in ParamSets : q.cell_type = "simple"}}
        \cup ParamSets

\* one call of forward on a batch whose first row is the example row; the
\* other rows are sentences of any length
InitExample ==
    /\ max_depth = Len(ExampleHidden)
    /\ length \in {len \in SortedLengths(max_depth) : len[1] = max_depth}
    /\ training \in BOOLEAN
    /\ params \in ExampleParamSets
    /\ cell_type = params.cell_type
    /\ intra_attention = FALSE
    /\ debug = FALSE
    /\ twin_input = [refill |-> FALSE, leaf |-> [h |-> 0, c |-> 0]]
    /\ same_seed = twin_input.refill
    /\ \E leaves \in [Rows -> Sentences(max_depth)] :
          input = TwinBatch([leaves EXCEPT ![1] = ExampleRow], length, max_depth,
                            twin_input)
    /\ Begin
    /\ loop_pc = "none"
    /\ is_training = training
    /\ HarnessIdle

SpecExample == InitExample /\ [][Next]_vars

\* ---------------------------------------------- select_composition alone
\* no call of forward is in progress and no training script runs
ForwardIdle ==
    /\ max_depth = 0
    /\ length = PerRow(LAMBDA r : 0)
    /\ training = TRUE
    /\ cell_type = "treelstm"
    /\ params \in {p \in ParamSets : p.cell_type = cell_type}
    /\ intra_attention = FALSE
    /\ debug = FALSE
    /\ twin_input = [refill |-> FALSE, leaf |-> [h |-> 0, c |-> 0]]
    /\ same_seed = twin_input.refill
    /\ input = PerRun(LAMBDA run : PerRow(LAMBDA r : << >>))
    /\ i = 0
    /\ pc = "idle"
    /\ state = PerRun(LAMBDA run : [h |-> PerRow(LAMBDA r : << >>),
                                    c |-> PerRow(LAMBDA r : << >>),
                                    lens |-> PerRow(LAMBDA r : << >>)])
    /\ select_masks = PerRun(LAMBDA run : << >>)
    /\ nodes = PerRun(LAMBDA run : PerRow(LAMBDA r : << >>))
    /\ scorer_calls = PerRun(LAMBDA run : PerRow(LAMBDA r : 0))
    /\ result = PerRun(LAMBDA run : NoResult)
    /\ loop_pc = "none"
    /\ is_training = FALSE

\* the entries a select_mask handed to the routing may hold: those of a
\* one-hot or all-zero vector, and values that are neither
SelectValues == {-1, 0, 1, 2}

\* select_composition past its selection policy, with any select_mask of one
\* row
InitRouting ==
    /\ ForwardIdle
    /\ TrainerIdle
    /\ RlIdle
    /\ routed_sel \in UNION {[1..n -> SelectValues] : n \in 1..MaxLen}
    /\ routed_masks = None

\* lines 178-186: left_mask and right_mask of the select_mask
RoutingMasks ==
    /\ routed_sel # None
    /\ routed_masks = None
    /\ routed_masks' = <<LeftMask(routed_sel), RightMask(routed_sel)>>
    /\ UNCHANGED <<batch, module, locals, script, routed_sel, trainer, rl>>

SpecRouting == InitRouting /\ [][RoutingMasks]_vars

\* ------------------------------------------------- the scripts' batch loops
MaxEpoch == 2        \* largest args.max_epoch
ValidateDivisor == 10
ProgressDivisor == 100

\* the batch loops: train of src/train.py; train and train_withsampleRL of
\* sst/train.py (the same loop); train of snli/train.py; train_withsampleRL
\* of snli/train.py
TrainLoops == {"train", "sst", "snli", "snli_rl"}
\* batches per epoch: fewer than 10, 10 to 99, 100
TrainBatchCounts == {5, 10, 25, 100}
\* accuracies a validation may measure, in units of 1 / One
Accuracies == 0..One

\* for epoch_num in range(max_epoch): for batch_iter, ... in enumerate(...)
Nested(name) == name # "sst"
\* a loop without the progress line
NoProgressInterval(name) == FALSE

\* the loops that print the progress every num_train_batches // 100 batches
HasProgressInterval(name) == name \in {"train", "snli_rl"}

\* validate_every = num_train_batches // 10
ValidateEvery(n) == n \div ValidateDivisor
ProgressEvery(n) == n \div ProgressDivisor

\* a modulus used after a training batch is 0
ZeroModulus(name, n) ==
    \/ HasProgressInterval(name) /\ ProgressEvery(n) = 0
    \/ ValidateEvery(n) = 0

\* the validation due after every batch
IsValidationPointAlways(b, every) == TRUE
\* (batch_iter + 1) % validate_every == 0
IsValidationPoint(b, every) == (b + 1) % every = 0

\* a tie with the best accuracy counted as an improvement
ImprovesOrTies(acc, best) == acc >= best
\* valid_accuracy > best_vaild_accuacy
Improves(acc, best) == acc > best

\* progress >= args.max_epoch in place of progress > args.max_epoch
LoaderEpochReached(kind, iterations, n, limit) ==
    IF kind = "fraction" THEN iterations >= limit * n
    ELSE iterations \div n >= limit

\* progress > args.max_epoch with progress = train_loader.epoch after
\* iterations batches: the loader reports iterations / len(loader), or its
\* integer part
LoaderEpochPast(kind, iterations, n, limit) ==
    IF kind = "fraction" THEN iterations > limit * n
    ELSE iterations \div n > limit

\* the position the loop takes up after the batch: the next batch, the
\* first batch of the next epoch, or the end of the loop
Advance(stop) ==
    IF ~Nested(script_name)
    THEN /\ train_pc' = IF stop THEN "stopped" ELSE "batch"
         /\ batch_iter' = IF stop THEN batch_iter ELSE batch_iter + 1
         /\ UNCHANGED epoch_num
    ELSE IF batch_iter + 1 < num_train_batches
    THEN /\ train_pc' = "batch"
         /\ batch_iter' = batch_iter + 1
         /\ UNCHANGED epoch_num
    ELSE IF epoch_num + 1 < max_epoch
    THEN /\ train_pc' = "batch"
         /\ batch_iter' = 0
         /\ epoch_num' = epoch_num + 1
    ELSE /\ train_pc' = "stopped"
         /\ UNCHANGED <<batch_iter, epoch_num>>

\* a training function about to enter its batch loop
InitTrain ==
    /\ ForwardIdle
    /\ RoutingIdle
    /\ RlIdle
    /\ script_name \in TrainLoops
    /\ loader_epoch \in IF script_name = "sst" THEN {"fraction", "floor"} ELSE {"none"}
    /\ num_train_batches \in TrainBatchCounts
    /\ max_epoch \in 0..MaxEpoch
    /\ epoch_num = 0
    /\ batch_iter = 0
    /\ best_vaild_accuacy = 0
    /\ valid_accuracy = Unbound
    /\ train_pc = IF Nested(script_name) /\ max_epoch = 0 THEN "stopped" ELSE "batch"
    /\ validations = 0
    /\ checkpoints = << >>
    /\ test_evals = 0

\* the training iteration on the batch
TrainBatch ==
    /\ train_pc = "batch"
    /\ train_pc' = "after_batch"
    /\ UNCHANGED <<batch, module, locals, script, routing, rl, script_name, loader_epoch,
                   num_train_batches, max_epoch, epoch_num, batch_iter,
                   best_vaild_accuacy, valid_accuracy, validations, checkpoints,
                   test_evals>>

\* (batch_iter + 1) % 0: ZeroDivisionError
DivisionByZero ==
    /\ train_pc = "after_batch"
    /\ ZeroModulus(script_name, num_train_batches)
    /\ train_pc' = "crashed"
    /\ UNCHANGED <<batch, module, locals, script, routing, rl, script_name, loader_epoch,
                   num_train_batches, max_epoch, epoch_num, batch_iter,
                   best_vaild_accuacy, valid_accuracy, validations, checkpoints,
                   test_evals>>

\* the validation block: the validation accuracy, on a new best the test
\* evaluation and the checkpoint, and in sst/train.py the break
Validate ==
    /\ train_pc = "after_batch"
    /\ ~ZeroModulus(script_name, num_train_batches)
    /\ IsValidationPoint(batch_iter, ValidateEvery(num_train_batches))
    /\ validations' = validations + 1
    /\ \E acc \in Accuracies :
          /\ valid_accuracy' = acc
          /\ IF Improves(acc, best_vaild_accuacy)
             THEN /\ test_evals' = test_evals + 1
                  /\ best_vaild_accuacy' = acc
                  /\ checkpoints' = Append(checkpoints, acc)
             ELSE UNCHANGED <<test_evals, best_vaild_accuacy, checkpoints>>
    /\ Advance(LoaderEpochPast(loader_epoch, batch_iter + 1, num_train_batches,
                               max_epoch))
    /\ UNCHANGED <<batch, module, locals, script, routing, rl, script_name, loader_epoch,
                   num_train_batches, max_epoch>>

\* no validation is due after this batch
NextBatch ==
    /\ train_pc = "after_batch"
    /\ ~ZeroModulus(script_name, num_train_batches)
    /\ ~IsValidationPoint(batch_iter, ValidateEvery(num_train_batches))
    /\ Advance(FALSE)
    /\ UNCHANGED <<batch, module, locals, script, routing, rl, script_name, loader_epoch,
                   num_train_batches, max_epoch, best_vaild_accuacy, valid_accuracy,
                   validations, checkpoints, test_evals>>

NextTrain == TrainBatch \/ DivisionByZero \/ Validate \/ NextBatch

SpecTrain == InitTrain /\ [][NextTrain]_vars

\* ------------------------------------------------ the loop of sst/train.py
\* train or train_withsampleRL of sst/train.py about to enter its loop over
\* the endlessly repeating train_loader
InitSst == InitTrain /\ script_name = "sst"

\* the script runs on: a step that can be taken is taken
SpecSst == InitSst /\ [][NextTrain]_vars /\ WF_vars(NextTrain)

\* ================================================================ properties
Max(a, b) == IF a >= b THEN a ELSE b
\* number of nodes of row r that carry span
Surviving(st, r) == Cardinality({j \in 1..Len(st.lens[r]) : st.lens[r][j] > 0})
\* number of passes of the loop body completed
Iterations == i
\* the recorded selection of run at 0-based iteration k
SelectionAt(run, k) == select_masks[run][k + 1]
IsOneHotAt(v, p) == \A j \in 1..Len(v) : v[j] = (IF j = p THEN 1 ELSE 0)
RootOf(st, r) == [h |-> st.h[r][1], lens |-> st.lens[r][1]]
\* a loop pass is taken by this step
LoopPass == pc = "loop" /\ i' = i + 1
SelectPass == LoopPass /\ i < max_depth - 2

\* C1 -- span conservation: in every row of every run, before and after every
\* iteration, the span lengths of the row's slots sum to the row's true length.
SpanConservation ==
    \A run \in Runs : \A r \in Rows : SumSeq(state[run].lens[r]) = length[r]

\* a row of three leaves has merged its last two nodes while a shorter row waits
SpanConservationWitness ==
    /\ i = 1
    /\ \E r \in Rows : length[r] = 3 /\ state[1].lens[r] = <<1, 2>>
    /\ \E r \in Rows : length[r] < 3

\* the array select_composition yields for row r when position p is selected:
\* old slots before p, the parent of old slots p and p + 1 at p, then the old
\* slots shifted left by one
RoutedRow(old, r, p, channel(_)) ==
    LET parent == ComposeCell(cell_type, params, NodeAt(old, r, p), NodeAt(old, r, p + 1))
    IN [j \in 1..(Width(old) - 1) |->
          IF j < p THEN channel(NodeAt(old, r, j))
          ELSE IF j = p THEN channel(parent)
          ELSE channel(NodeAt(old, r, j + 1))]

RoutedAs(next, old, r, p) ==
    /\ next.h[r] = RoutedRow(old, r, p, LAMBDA nd : nd.h)
    /\ next.lens[r] = RoutedRow(old, r, p, LAMBDA nd : nd.lens)
    /\ cell_type = "treelstm" => next.c # None
    /\ next.c # None => next.c[r] = RoutedRow(old, r, p, LAMBDA nd : nd.c)

\* C2 -- mask correctness in transition: on every pass that selects, for every
\* row the recorded selection is one-hot at some p and the array
\* select_composition builds from it has one slot less, keeps the slots before
\* p, holds the merged node of old slots p and p + 1 at p and the old slots
\* shifted by one after p, on the hidden, span and (where the cell produces
\* one) cell channels; the rows not yet finished carry exactly that array on.
MaskCorrectness ==
    [][SelectPass =>
        \A run \in Runs :
            LET old == state[run]
                sel == select_masks'[run][Len(select_masks'[run])]
                next == Route(old, TreeLayer(cell_type, params, old), sel)
            IN \A r \in Rows :
                 \E p \in 1..(Width(old) - 1) :
                    /\ IsOneHotAt(sel[r], p)
                    /\ Len(next.h[r]) = Width(old) - 1
                    /\ RoutedAs(next, old, r, p)
                    /\ length[r] > i + 1 => RoutedAs(state'[run], old, r, p)]_vars

\* a selection at the first position (slots after it shift) and one at the
\* last position (slots before it stay) have both been routed
MaskCorrectnessWitness ==
    /\ i = 1 /\ max_depth = 3 /\ cell_type = "treelstm"
    /\ \E r \in Rows : length[r] = 3 /\ SelectionAt(1, 0)[r] = <<1, 0>>
    /\ \E r \in Rows : length[r] = 3 /\ SelectionAt(1, 0)[r] = <<0, 1>>

\* C3 -- single-root termination: forward never fails its final assertion, and
\* when it returns it has run exactly max_length - 1 iterations and every row,
\* whatever its length, holds one node in an array of width 1.
SingleRootTermination ==
    /\ pc # "assert_failed"
    /\ pc = "done" =>
          /\ Iterations = max_depth - 1
          /\ \A run \in Runs : \A r \in Rows :
                /\ Len(state[run].h[r]) = 1
                /\ Len(state[run].lens[r]) = 1
                /\ state[run].c # None => Len(state[run].c[r]) = 1
                /\ Surviving(state[run], r) = 1

SingleRootTerminationWitness ==
    /\ pc = "done" /\ max_depth = 3
    /\ \E r \in Rows : length[r] = 1
    /\ \E r \in Rows : length[r] = 3

\* C4 -- frozen-row invariance: once a row of true length L has been through
\* L - 1 iterations, no later iteration changes its root: hidden and span at
\* slot 0 stay the same, and so does the cell at slot 0 while the cell channel
\* exists.
FrozenRowInvariance ==
    [][LoopPass =>
        \A run \in Runs : \A r \in Rows :
            Iterations >= length[r] - 1 =>
                /\ RootOf(state'[run], r) = RootOf(state[run], r)
                /\ cell_type = "treelstm" => state'[run].c # None
                /\ state'[run].c # None =>
                       state'[run].c[r][1] = state[run].c[r][1]]_vars

\* a row of one leaf has sat through a selecting pass and the last pass next
\* to a row of full length
FrozenRowInvarianceWitness ==
    /\ pc = "done" /\ max_depth = 3 /\ cell_type = "treelstm"
    /\ \E r \in Rows : length[r] = 1 /\ state[1].h[r][1] = input[1][r][1].h
    /\ \E r \in Rows : length[r] = 3

\* C5 -- row-finished masking: on every pass, done_mask is 0 for a row exactly
\* when the row holds a single surviving node; a finished row comes out as its
\* previous array without the last slot (hidden, span, and cell while the cell
\* channel exists), an unfinished row as the result of the level transition.
RowFinishedMasking ==
    [][LoopPass =>
        \A run \in Runs :
            LET old == state[run]
                new == TreeLayer(cell_type, params, old)
                trans == IF i < max_depth - 2
                         THEN Route(old, new, select_masks'[run][Len(select_masks'[run])])
                         ELSE new
                done_mask == DoneMask(LengthMask, i)
            IN \A r \in Rows :
                 /\ done_mask[r] = 0 <=> Surviving(old, r) = 1
                 /\ done_mask[r] = 1 <=> Surviving(old, r) >= 2
                 /\ cell_type = "treelstm" => state'[run].c # None
                 /\ done_mask[r] = 0 =>
                       /\ state'[run].h[r] = DropLast(old.h[r])
                       /\ state'[run].lens[r] = DropLast(old.lens[r])
                       /\ state'[run].c # None => state'[run].c[r] = DropLast(old.c[r])
                 /\ done_mask[r] = 1 =>
                       /\ state'[run].h[r] = trans.h[r]
                       /\ state'[run].lens[r] = trans.lens[r]
                       /\ state'[run].c # None => state'[run].c[r] = trans.c[r]]_vars

\* after the first pass one row was finished and kept its leaf, the other row
\* was not and holds a merged node
RowFinishedMaskingWitness ==
    /\ i = 1 /\ max_depth = 3 /\ cell_type = "treelstm"
    /\ \E r \in Rows : /\ length[r] = 1
                       /\ state[1].h[r] = <<input[1][r][1].h, input[1][r][2].h>>
    /\ \E r \in Rows : length[r] = 3 /\ 2 \in {state[1].lens[r][j] : j \in 1..2}

\* C6 -- per-row state machine: after k iterations a row of true length L has
\* max(L - k, 1) surviving nodes, whatever the other rows of the batch do; so
\* it loses one node per iteration while it has more than one and stays at one
\* node for the rest of the iterations.
PerRowStateMachine ==
    \A run \in Runs : \A r \in Rows :
        Surviving(state[run], r) = Max(length[r] - Iterations, 1)

\* all iterations are over for a batch in which one row was frozen from the
\* start and another merged on every pass
PerRowStateMachineWitness ==
    /\ i = 2 /\ max_depth = 3
    /\ \E r \in Rows : length[r] = 1
    /\ \E r \in Rows : length[r] = 3

\* the root forward returns for row r equals the row's single input leaf
ReturnsLeaf(run, r) ==
    /\ result[run].h[r] = input[run][r][1].h
    /\ cell_type = "treelstm" => result[run].c # None
    /\ result[run].c # None => result[run].c[r][1] = input[run][r][1].c

GreedyDeterminism ==
    (~training /\ input[1] = input[2]) =>
        /\ select_masks[1] = select_masks[2]
        /\ state[1] = state[2]
        /\ result[1] = result[2]

\* two evaluation runs with different seeds have selected and returned
GreedyDeterminismWitness ==
    /\ ~training /\ ~same_seed /\ input[1] = input[2]
    /\ pc = "done" /\ max_depth = 3
    /\ \E r \in Rows : length[r] = 3 /\ SelectionAt(1, 0)[r] = <<0, 1>>

\* the mask handed to the selection policy at the current iteration marks
\* candidate j (0-based) valid iff j < L - i - 1
ValidityMaskExact ==
    (pc = "loop" /\ i < max_depth - 2) =>
        \A r \in Rows :
            /\ Len(CandidateMask(LengthMask, i)[r]) = max_depth - i - 1
            /\ \A j \in 1..(max_depth - i - 1) :
                  CandidateMask(LengthMask, i)[r][j] = 1 <=> j - 1 < length[r] - i - 1
            /\ \A j \in 1..(max_depth - i - 1) :
                  CandidateMask(LengthMask, i)[r][j] \in {0, 1}

\* C9 -- selection validity: the validity mask of iteration i marks candidate
\* j valid iff j < L - i - 1, and every selection recorded for a row that
\* still had two or more nodes is one-hot at a valid candidate.
SelectionValidity ==
    /\ ValidityMaskExact
    /\ \A run \in Runs : \A k \in 0..(Len(select_masks[run]) - 1) : \A r \in Rows :
          length[r] - k >= 2 =>
              \E p \in 1..(length[r] - k - 1) : IsOneHotAt(SelectionAt(run, k)[r], p)

\* in training mode a row with padding (two of three slots used) has made its
\* selection, and so has a full row
SelectionValidityWitness ==
    /\ training /\ i = 1 /\ max_depth = 3
    /\ \E r \in Rows : length[r] = 2 /\ SelectionAt(1, 0)[r] = <<1, 0>>
    /\ \E r \in Rows : length[r] = 3 /\ SelectionAt(1, 0)[r] = <<0, 1>>

\* C10 -- padding non-interference: two runs that agree on lengths, valid
\* leaves, parameters and sampling noise but differ in the contents of the
\* padding slots make the same selection for every row at every iteration at
\* which the row is still active, hold the same surviving nodes throughout
\* and return the same root.
PaddingNonInterference ==
    (same_seed \/ ~training) =>
        \A r \in Rows :
            /\ \A k \in 0..(Len(select_masks[1]) - 1) :
                  length[r] - k >= 2 => SelectionAt(1, k)[r] = SelectionAt(2, k)[r]
            /\ \A j \in 1..Max(length[r] - Iterations, 1) :
                  /\ state[1].h[r][j] = state[2].h[r][j]
                  /\ state[1].lens[r][j] = state[2].lens[r][j]
                  /\ state[1].c # None => state[1].c[r][j] = state[2].c[r][j]
            /\ pc = "done" =>
                  /\ result[1].h[r] = result[2].h[r]
                  /\ result[1].c # None => result[1].c[r] = result[2].c[r]

\* the runs differed in the padding of a row that was active on the selecting
\* pass, and have returned
PaddingNonInterferenceWitness ==
    /\ pc = "done" /\ max_depth = 3 /\ twin_input.refill
    /\ \E r \in Rows : length[r] = 2 /\ input[1][r][3] # input[2][r][3]
    /\ \E r \in Rows : length[r] = 1 /\ input[1][r][2] # input[2][r][2]

\* ------------------------------------------------------------ tree recorder
Min(a, b) == IF a <= b THEN a ELSE b
\* the spans of the surviving nodes of row r, left to right
Frontier(st, r) == SelectSeq(st.lens[r], LAMBDA x : x > 0)
\* the spans after the nodes at p and p + 1 have been merged
MergeAt(spans, p) ==
    [j \in 1..(Len(spans) - 1) |->
        IF j < p THEN spans[j]
        ELSE IF j = p THEN spans[p] + spans[p + 1]
        ELSE spans[j + 1]]
\* the position a recorded selection marks, 0 when it marks none
PositionOf(v) ==
    IF \E p \in 1..Len(v) : v[p] = 1
    THEN CHOOSE p \in 1..Len(v) : v[p] = 1 /\ \A q \in 1..(p - 1) : v[q] # 1
    ELSE 0
\* the spans of a row of true length len after k iterations, read off the
\* trace and the length alone: the recorded merge while the row has two or
\* more nodes and an entry exists, the only possible merge on the last
\* iteration, nothing once the row is down to one node
RECURSIVE Replay(_, _, _, _)
Replay(trace, r, len, k) ==
    IF k = 0 THEN [j \in 1..len |-> 1]
    ELSE LET before == Replay(trace, r, len, k - 1)
             p == IF k <= Len(trace) THEN PositionOf(trace[k][r]) ELSE 1
         IN IF Len(before) <= 1 THEN before
            ELSE IF p \in 1..(Len(before) - 1) THEN MergeAt(before, p)
            ELSE << >>

\* C11 as stated -- tree recorder: the returned trace holds one selection per
\* merge iteration, from the first to the last.
TreeRecorderEveryIteration ==
    pc = "done" =>
        \A run \in Runs : Len(result[run].select_masks) = max_depth - 1

\* C11 -- tree recorder, amended: forward records one selection per row on
\* every iteration but the last (max(max_length - 2, 0) entries, for finished
\* rows too) and returns that list; replaying the entries of the iterations
\* at which a row of true length L still had two or more nodes, and the one
\* possible merge on the last iteration, rebuilds the spans of the row's
\* surviving nodes after every iteration, down to the single root.
TreeRecorder ==
    \A run \in Runs :
        /\ Len(select_masks[run]) = Min(Iterations, Max(max_depth - 2, 0))
        /\ \A k \in 1..Len(select_masks[run]) :
              /\ Len(select_masks[run][k]) = NumRows
              /\ \A r \in Rows : Len(select_masks[run][k][r]) = max_depth - k
        /\ \A r \in Rows :
              Frontier(state[run], r)
                  = Replay(select_masks[run], r, length[r], Iterations)
        /\ pc = "done" =>
              /\ result[run].select_masks = select_masks[run]
              /\ Len(result[run].select_masks) = Max(max_depth - 2, 0)
              /\ \A r \in Rows :
                    Replay(result[run].select_masks, r, length[r], max_depth - 1)
                        = <<length[r]>>

\* forward has returned the trace of a batch in which a full row merged its
\* last two leaves first and its root on the unrecorded last iteration, next
\* to a row that finished one iteration earlier
TreeRecorderWitness ==
    /\ pc = "done" /\ max_depth = 3
    /\ \E r \in Rows : length[r] = 3 /\ result[1].select_masks[1][r] = <<0, 1>>
    /\ \E r \in Rows : length[r] = 2 /\ result[1].select_masks[1][r] = <<1, 0>>

\* ------------------------------------------------------------- compose cell
\* the node with the hidden and cell values of leaf
WithValues(node, leaf) == [h |-> leaf.h, c |-> leaf.c, lens |-> node.lens]

\* C12 -- compose cell span: for every pair of adjacent slots of every row,
\* the candidate the compose cell of the module builds has the span of the
\* left slot plus the span of the right slot, and so has the parent either
\* cell variant builds from the two spans under any parameters and any
\* hidden and cell values.
ComposeCellSpan ==
    pc = "loop" =>
        \A run \in Runs :
            LET composed == TreeLayer(cell_type, params, state[run])
            IN \A r \in Rows : \A j \in 1..(Width(state[run]) - 1) :
                 LET l == NodeAt(state[run], r, j)
                     rr == NodeAt(state[run], r, j + 1)
                 IN /\ composed.lens[r][j] = l.lens + rr.lens
                    /\ \A p \in ParamSets : \A a \in LeafNodes : \A b \in LeafNodes :
                          /\ BinaryTreeLSTMLayer(p, WithValues(l, a),
                                                 WithValues(rr, b)).lens
                                = l.lens + rr.lens
                          /\ SimpleLayer(p, WithValues(l, a), WithValues(rr, b)).lens
                                = l.lens + rr.lens

\* the candidates of the second iteration: a merged node with a leaf (span
\* 3) in one row, a root with a padding slot (span 1) in another
ComposeCellSpanWitness ==
    /\ pc = "loop" /\ i = 1 /\ max_depth = 3
    /\ \E r \in Rows :
          /\ state[1].lens[r] = <<2, 1>>
          /\ TreeLayer(cell_type, params, state[1]).lens[r] = <<3>>
    /\ \E r \in Rows :
          /\ state[1].lens[r] = <<1, 0>>
          /\ TreeLayer(cell_type, params, state[1]).lens[r] = <<1>>

\* ---------------------------------------------------------------- capacity
\* C13 -- node array capacity: after k iterations, 0 <= k <= max_length - 1,
\* the node array of every row, finished or not, has exactly max_length - k
\* slots on the hidden and span channels and on the cell channel where the
\* module carries one (always with the tree-LSTM cell); so every iteration
\* takes exactly one slot from every row.
NodeArrayCapacity ==
    /\ Iterations >= 0
    /\ Iterations <= max_depth - 1
    /\ \A run \in Runs :
          /\ cell_type = "treelstm" => state[run].c # None
          /\ \A r \in Rows :
                /\ Len(state[run].h[r]) = max_depth - Iterations
                /\ Len(state[run].lens[r]) = max_depth - Iterations
                /\ state[run].c # None =>
                       Len(state[run].c[r]) = max_depth - Iterations

\* two iterations over a batch with a row finished from the start and a row
\* of full length: both are down to one slot
NodeArrayCapacityWitness ==
    /\ Iterations = 2 /\ max_depth = 3 /\ cell_type = "treelstm"
    /\ \E r \in Rows : length[r] = 1 /\ Len(state[1].c[r]) = 1
    /\ \E r \in Rows : length[r] = 3 /\ Len(state[1].h[r]) = 1

\* ---------------------------------------------------------- error handling
\* C14 as stated -- length-mismatch fail-fast: when the true length supplied
\* for some row exceeds max_length = input.size(1), forward produces no
\* output.
LengthMismatchFailFast ==
    (\E r \in Rows : length[r] > max_depth) => pc # "done"

\* the scores select_composition computes in the current state
CurrentScores == CompWeights(params, TreeLayer(cell_type, params, state[1]))
\* forward is about to call select_composition
AtScorer == pc = "loop" /\ i < LoopBound(max_depth) /\ i < max_depth - 2

\* C15 -- NaN scores: when select_composition is called with conf.debug on
\* and some candidate score is NaN, the call raises: no selection is
\* recorded, no node array, collected node or loop counter changes and
\* nothing is returned; when no score is NaN the call does not raise, a
\* selection is recorded and the loop goes on.
NaNScoresFatal ==
    [][AtScorer =>
        /\ (debug /\ HasNaN(CurrentScores)) =>
               /\ pc' = "raised"
               /\ UNCHANGED <<state, select_masks, nodes, i, result>>
        /\ ~HasNaN(CurrentScores) =>
               /\ pc' = "loop"
               /\ i' = i + 1
               /\ \A run \in Runs : Len(select_masks'[run]) = Len(select_masks[run]) + 1
                                     /\ Len(state'[run].h[1]) = Len(state[run].h[1]) - 1]_vars

\* with conf.debug on and a NaN query the first call of select_composition
\* has raised, before anything was selected
NaNScoresFatalWitness ==
    /\ pc = "raised" /\ debug /\ params.comp_query = NaN
    /\ max_depth = 3 /\ i = 0
    /\ select_masks[1] = << >>
    /\ scorer_calls[1][1] = 1
    /\ Len(state[1].h[1]) = 3

\* ---------------------------------------------------------- root aggregator
\* the nodes collected for row r so far: the max_length leaf slots, then one
\* slot per iteration; the attention mask has 2 * max_length - 1 slots and
\* marks the first L leaf slots and the slots of the first L - 1 iterations
\* att is row r of the attention mask of the batch
NodeSetShape(att, run, r) ==
    /\ Len(att) = 2 * max_depth - 1
    /\ Len(nodes[run][r]) = max_depth + Iterations
    /\ pc = "done" => Len(nodes[run][r]) = 2 * max_depth - 1
    /\ \A j \in 1..max_depth :
          /\ nodes[run][r][j] = input[run][r][j].h
          /\ att[j] = 1 <=> j <= length[r]
    /\ \A k \in 1..(max_depth - 1) :
          att[max_depth + k] = 1 <=> k <= length[r] - 1
    /\ \A j \in 1..Len(att) : att[j] \in {0, 1}
    /\ SumSeq(att) = 2 * length[r] - 1

\* the hidden vector of the node row r gains on the pass being taken: the
\* parent of the selected pair, of the only pair on the last pass
MergedOnThisPass(run, r) ==
    LET old == state[run]
        p == IF i < max_depth - 2
             THEN PositionOf(select_masks'[run][Len(select_masks'[run])][r])
             ELSE 1
    IN ComposeCell(cell_type, params, NodeAt(old, r, p), NodeAt(old, r, p + 1)).h

\* C16 -- root aggregator node set: with intra_attention on, forward collects
\* the max_length leaf slots and then exactly one node per iteration,
\* 2 * max_length - 1 slots when it returns; the node collected on an
\* iteration at which the row still had two or more nodes is the node the
\* row merged on that iteration (its root on its last one); the attention
\* mask marks, for a row of true length L, exactly its L leaves and the
\* L - 1 nodes it merged, and no padding leaf and no slot collected after
\* the row had finished.
RootAggregatorNodeSet ==
    [][intra_attention =>
        \A att_mask \in {AttMask(LengthMask)} :
        \A att_mask_after \in {AttMask(LengthMask)'} :
        \A run \in Runs : \A r \in Rows :
            /\ NodeSetShape(att_mask[r], run, r)
            /\ NodeSetShape(att_mask_after[r], run, r)'
            /\ LoopPass =>
                  /\ Len(nodes'[run][r]) = Len(nodes[run][r]) + 1
                  /\ SubSeq(nodes'[run][r], 1, Len(nodes[run][r])) = nodes[run][r]
                  /\ length[r] > i + 1 =>
                        nodes'[run][r][Len(nodes'[run][r])] = MergedOnThisPass(run, r)]_vars

\* forward has returned with intra_attention on: five slots per row, all
\* valid for the row of three leaves, the third leaf slot and the slot of
\* the last iteration masked for the row of two
RootAggregatorNodeSetWitness ==
    /\ pc = "done" /\ intra_attention /\ max_depth = 3
    /\ \E r \in Rows : /\ length[r] = 3
                       /\ Len(nodes[1][r]) = 5
                       /\ AttMask(LengthMask)[r] = <<1, 1, 1, 1, 1>>
    /\ \E r \in Rows : /\ length[r] = 2
                       /\ Len(nodes[1][r]) = 5
                       /\ AttMask(LengthMask)[r] = <<1, 1, 0, 1, 0>>

\* ------------------------------------------------------------- simple cell
\* C17 as stated -- the simple variant has no cell: with cell_type "simple"
\* the cell channel is None in the node arrays after each merge iteration
\* and in the value forward returns, whatever the batch and max_length.
SimpleHasNoCell ==
    cell_type = "simple" =>
        \A run \in Runs :
            /\ Iterations >= 1 => state[run].c = None
            /\ pc = "done" => result[run].c = None

\* ------------------------------------------------------ greedy tie-breaking
\* the effective logits of the candidates of row r built from node array st
EffectiveLogits(st, r) ==
    LET new == TreeLayer(cell_type, params, st)
    IN EffLogits(DotNd(params.comp_query, new.h[r]),
                 params.weighted_by_interval_length, new.lens[r], params.log_base)
\* the valid candidates of row r whose effective logit is maximal
BestCandidates(eff, mask) ==
    {j \in 1..Len(mask) : mask[j] = 1 /\ \A k \in 1..Len(mask) :
                                            mask[k] = 1 => eff[k] <= eff[j]}

\* C18 -- greedy tie-breaking: on every selecting pass in evaluation mode the
\* selection recorded for a row with a valid candidate is one-hot at a valid
\* candidate of maximal effective logit, and at the smallest index among
\* those when several share the maximum.
GreedyTieBreaking ==
    [][(SelectPass /\ ~training) =>
        \A run \in Runs : \A r \in Rows :
            LET best == BestCandidates(EffectiveLogits(state[run], r),
                                       CandidateMask(LengthMask, i)[r])
                sel == select_masks'[run][Len(select_masks'[run])][r]
            IN best # {} =>
                 \E p \in best : (\A q \in best : p <= q) /\ IsOneHotAt(sel, p)]_vars

\* in evaluation mode the two candidates of a row of three leaves had the
\* same effective logit and the first was selected, while in another row the
\* second candidate had the larger logit and was selected
GreedyTieBreakingWitness ==
    /\ ~training /\ i = 1 /\ max_depth = 3
    /\ \E r \in Rows :
          LET eff == EffectiveLogits(InitialState(input[1], LengthMask), r)
          IN length[r] = 3 /\ eff[1] = eff[2] /\ SelectionAt(1, 0)[r] = <<1, 0>>
    /\ \E r \in Rows :
          LET eff == EffectiveLogits(InitialState(input[1], LengthMask), r)
          IN length[r] = 3 /\ eff[1] < eff[2] /\ SelectionAt(1, 0)[r] = <<0, 1>>

\* ----------------------------------------------------------- selection mode
\* C19 -- selection mode follows the pass type: on every selecting pass of a
\* forward run for a validation or test batch the recorded selection is the
\* greedy arg-max selection, and on every selecting pass of a forward run
\* for a training batch it is a relaxed-stochastic sample (the selection
\* some draw of the noise yields), whatever passes came before; the module's
\* mode equals the pass type during every forward.
SelectionModeFollowsPass ==
    [][SelectPass =>
        /\ is_training = (loop_pc = "train")
        /\ training = is_training
        /\ \A run \in Runs :
              LET new == TreeLayer(cell_type, params, state[run])
                  mask == CandidateMask(LengthMask, i)
                  n == max_depth - i - 1
                  sel == select_masks'[run][Len(select_masks'[run])]
                  scores(r) == DotNd(params.comp_query, new.h[r])
              IN /\ loop_pc \in {"valid", "test"} =>
                       \A r \in Rows :
                           sel[r] = GreedySelect(scores(r), mask[r],
                                                 params.weighted_by_interval_length,
                                                 new.lens[r], params.log_base)
                 /\ loop_pc = "train" =>
                       \A r \in Rows : \E k \in 1..n :
                           sel[r] = StGumbelSoftmax(scores(r), Gumbel(k, n), mask[r],
                                                    params.weighted_by_interval_length,
                                                    new.lens[r], params.log_base)]_vars

\* a test batch, reached through training and validation batches, has been
\* through its selecting pass in evaluation mode: both runs, drawing from
\* different seeds, recorded the same selection
SelectionModeFollowsPassWitness ==
    /\ loop_pc = "test" /\ ~is_training /\ ~training
    /\ pc = "loop" /\ i = 1 /\ max_depth = 3
    /\ \E r \in Rows : length[r] = 3 /\ SelectionAt(1, 0)[r] = <<0, 1>>
                                     /\ SelectionAt(2, 0)[r] = <<0, 1>>

\* --------------------------------------------------------------- parameters
\* C20 -- parameters are read-only in a forward pass: no step of forward, in
\* training or evaluation mode, with or without intra_attention, changes the
\* weights of the compose cell, the scorer's query comp_query or the base of
\* the length prior, weighted_base.
ParametersReadOnly ==
    [][/\ params'.lstm = params.lstm
       /\ params'.simple = params.simple
       /\ params'.comp_query = params.comp_query
       /\ params'.log_base = params.log_base
       /\ params'.weighted_by_interval_length = params.weighted_by_interval_length]_vars

\* a forward in training mode with intra_attention and the length prior has
\* gone through a selecting pass and the last pass and has returned
ParametersReadOnlyWitness ==
    /\ pc = "done" /\ training /\ intra_attention
    /\ max_depth = 3 /\ Iterations = 2
    /\ params.weighted_by_interval_length
    /\ params \in ParamSets
    /\ \E r \in Rows : length[r] = 3

\* ------------------------------------------------------ end-to-end example
\* leaf j of the example row as a node, and the merge of two nodes
ExampleLeaf(j) ==
    [h |-> ExampleRow[j].h,
     c |-> ExampleRow[j].c,
     lens |-> 1]
Merge(l, r) == ComposeCell(cell_type, params, l, r)
\* a node as the state of a run holds it: the simple cell keeps no cell channel
\* after the first pass
Held(run, node) == [node EXCEPT !.c = IF state[run].c = None THEN None ELSE @]
\* the recorded selections of the example row are (0,1) and then (1,2)
ExampleForced(run) ==
    /\ Len(select_masks[run]) >= 2
    /\ SelectionAt(run, 0)[1] = <<1, 0, 0>>
    /\ SelectionAt(run, 1)[1] = <<0, 1>>

\* the statement as first given: three recorded selections, the second one
\* merging the first parent with leaf 3, and the left-deep composition
\* merge(merge(merge(1,2),3),4) as output
EndToEndExampleLeftDeep ==
    \A run \in Runs :
        LET m12 == Merge(ExampleLeaf(1), ExampleLeaf(2))
            m123 == Merge(m12, ExampleLeaf(3))
            root == Merge(m123, ExampleLeaf(4))
        IN ExampleForced(run) =>
              /\ Iterations = 2 =>
                    /\ NodeAt(state[run], 1, 1) = Held(run, m123)
                    /\ NodeAt(state[run], 1, 2) = Held(run, ExampleLeaf(4))
              /\ pc = "done" =>
                    /\ Len(result[run].select_masks) = 3
                    /\ result[run].select_masks[3][1] = <<1>>
                    /\ result[run].h[1] = root.h

\* C21 -- end-to-end example: for a row of 4 leaves with hidden values
\* [1,2,3,4] whose recorded selections are (0,1) and then (1,2), the first
\* selection merges leaves 1 and 2, the second merges leaves 3 and 4 (the
\* nodes then at positions 1 and 2), the last iteration merges the two
\* remaining nodes without recording a selection, the returned trace is
\* exactly those two selections and the output is
\* merge(merge(1,2), merge(3,4)).
EndToEndExample ==
    \A run \in Runs :
        LET m12 == Merge(ExampleLeaf(1), ExampleLeaf(2))
            m34 == Merge(ExampleLeaf(3), ExampleLeaf(4))
            root == Merge(m12, m34)
        IN /\ (Iterations = 1 /\ Len(select_masks[run]) = 1
                 /\ SelectionAt(run, 0)[1] = <<1, 0, 0>>) =>
                 /\ NodeAt(state[run], 1, 1) = Held(run, m12)
                 /\ NodeAt(state[run], 1, 2) = Held(run, ExampleLeaf(3))
                 /\ NodeAt(state[run], 1, 3) = Held(run, ExampleLeaf(4))
           /\ ExampleForced(run) =>
                 /\ Len(select_masks[run]) = 2
                 /\ Iterations = 2 =>
                       /\ NodeAt(state[run], 1, 1) = Held(run, m12)
                       /\ NodeAt(state[run], 1, 2) = Held(run, m34)
                 /\ Iterations = 3 =>
                       /\ Width(state[run]) = 1
                       /\ NodeAt(state[run], 1, 1) = Held(run, root)
                 /\ pc = "done" =>
                       /\ Len(result[run].select_masks) = 2
                       /\ result[run].select_masks[1][1] = <<1, 0, 0>>
                       /\ result[run].select_masks[2][1] = <<0, 1>>
                       /\ result[run].h[1] = root.h

\* forward has returned from the example row under the cell sigmoid(l + r)
\* with the selections (0,1) and (1,2) recorded
EndToEndExampleWitness ==
    /\ pc = "done" /\ max_depth = 4 /\ length[1] = 4
    /\ cell_type = "simple" /\ params.simple = <<1, 1, 0>>
    /\ input[1][1] = ExampleRow
    /\ ExampleForced(1)
    /\ state[1].lens[1] = <<4>>

\* ------------------------------------------- last iteration without selection
\* the pass with i = max_length - 2 is taken by this step
LastPass == LoopPass /\ i = max_depth - 2

\* C22 -- last iteration without selection: the pass at i = max_length - 2
\* (array width 2) evaluates neither the scorer nor the selection policy and
\* records no selection; for every row of full length the single node it
\* leaves is the one the level transition yields for the one-hot selection at
\* position 0, the parent of the two remaining nodes.
LastIterationWithoutSelection ==
    [][LastPass =>
        /\ scorer_calls' = scorer_calls
        /\ select_masks' = select_masks
        /\ \A run \in Runs :
              LET old == state[run]
                  routed == Route(old, TreeLayer(cell_type, params, old),
                                  PerRow(LAMBDA r : OneHot(1, 1)))
              IN /\ Width(old) = 2
                 /\ Width(state'[run]) = 1
                 /\ \A r \in Rows : length[r] = max_depth =>
                       /\ NodeAt(state'[run], r, 1) = NodeAt(routed, r, 1)
                       /\ NodeAt(state'[run], r, 1) =
                             ComposeCell(cell_type, params,
                                         NodeAt(old, r, 1), NodeAt(old, r, 2))]_vars

\* a row of three leaves has gone through its last pass: one node, one
\* scorer evaluation and one recorded selection, both from the pass before
LastIterationWithoutSelectionWitness ==
    /\ pc = "loop" /\ max_depth = 3 /\ Iterations = 2
    /\ \E r \in Rows : /\ length[r] = 3
                       /\ state[1].lens[r] = <<3>>
                       /\ scorer_calls[1][r] = 1
    /\ Len(select_masks[1]) = 1

\* ------------------------------------------------ contiguous-span tree
\* leaf j of row r as a tree over the leaf interval [j - 1, j)
CoverLeaf(run, r, j) ==
    [lo |-> j - 1, hi |-> j,
     node |-> [h |-> input[run][r][j].h, c |-> input[run][r][j].c, lens |-> 1]]
\* the trees after the ones at p and p + 1 have been joined under a parent
MergeCover(cover, p) ==
    [j \in 1..(Len(cover) - 1) |->
        IF j < p THEN cover[j]
        ELSE IF j = p
             THEN [lo |-> cover[p].lo, hi |-> cover[p + 1].hi,
                   node |-> ComposeCell(cell_type, params,
                                        cover[p].node, cover[p + 1].node)]
             ELSE cover[j + 1]]
\* the trees of a row of true length len after k iterations, built from the
\* leaves by the recorded selections (the only possible merge on the last
\* iteration, nothing once the row is down to its root)
RECURSIVE ReplayCover(_, _, _, _, _)
ReplayCover(trace, run, r, len, k) ==
    IF k = 0 THEN [j \in 1..len |-> CoverLeaf(run, r, j)]
    ELSE LET before == ReplayCover(trace, run, r, len, k - 1)
             p == IF k <= Len(trace) THEN PositionOf(trace[k][r]) ELSE 1
         IN IF Len(before) <= 1 THEN before
            ELSE IF p \in 1..(Len(before) - 1) THEN MergeCover(before, p)
            ELSE << >>

\* C23 -- contiguous-span tree invariant: after any number of iterations the
\* surviving nodes of a row of true length L, read left to right, are the
\* roots of trees over leaf intervals that start at 0, end at L and follow
\* one another without gap or overlap; each node's span length is the size
\* of its interval, its content is the composition of exactly the leaves of
\* that interval, and the root left at the end covers [0, L).
ContiguousSpanTree ==
    \A run \in Runs : \A r \in Rows :
        \A cover \in {ReplayCover(select_masks[run], run, r, length[r], Iterations)} :
            LET n == Len(cover)
            IN /\ n = Max(length[r] - Iterations, 1)
               /\ cover[1].lo = 0
               /\ cover[n].hi = length[r]
               /\ \A j \in 1..(n - 1) : cover[j].hi = cover[j + 1].lo
               /\ \A j \in 1..n :
                     /\ cover[j].lo < cover[j].hi
                     /\ state[run].lens[r][j] = cover[j].hi - cover[j].lo
                     /\ NodeAt(state[run], r, j) = Held(run, cover[j].node)
               /\ Iterations = max_depth - 1 =>
                     /\ n = 1
                     /\ state[run].lens[r] = <<length[r]>>

\* a row of three leaves after its first merge, of leaves 1 and 2: the nodes
\* cover [0, 1) and [1, 3)
ContiguousSpanTreeWitness ==
    /\ pc = "loop" /\ Iterations = 1 /\ max_depth = 3
    /\ \E r \in Rows :
          /\ length[r] = 3
          /\ SelectionAt(1, 0)[r] = <<0, 1>>
          /\ state[1].lens[r] = <<1, 2>>
          /\ ReplayCover(select_masks[1], 1, r, 3, 1)[2].lo = 1
          /\ ReplayCover(select_masks[1], 1, r, 3, 1)[2].hi = 3

\* ------------------------------------------------------- routing masks
\* v is the one-hot vector of some position
IsOneHot(v) == \E p \in 1..Len(v) : IsOneHotAt(v, p)

\* C24 -- routing masks sum to one: for every select_mask, one-hot, all-zero
\* or of any other values, and every candidate position j,
\* select_mask[j] + left_mask[j] + right_mask[j] = 1; for a one-hot
\* select_mask exactly one of the three is 1 at each position and the other
\* two are 0.
RoutingMasksSumToOne ==
    routed_masks # None =>
        LET left == routed_masks[1]
            right == routed_masks[2]
        IN /\ Len(left) = Len(routed_sel)
           /\ Len(right) = Len(routed_sel)
           /\ \A j \in 1..Len(routed_sel) :
                 /\ routed_sel[j] + left[j] + right[j] = 1
                 /\ IsOneHot(routed_sel) =>
                       /\ {routed_sel[j], left[j], right[j]} = {0, 1}
                       /\ Cardinality({m \in {"sel", "left", "right"} :
                             (CASE m = "sel" -> routed_sel[j]
                                [] m = "left" -> left[j]
                                [] m = "right" -> right[j]) = 1}) = 1

\* the masks of a select_mask that is neither one-hot nor all-zero have been
\* computed
RoutingMasksSumToOneWitness ==
    /\ routed_masks # None
    /\ routed_sel = <<2, -1, 0>>
    /\ routed_masks = << <<-1, 0, 0>>, <<0, 2, 1>> >>

\* ------------------------------------------------------------ trace length
\* C25 -- trace length: forward appends one selection mask per pass with
\* i < max_length - 2, in iteration order, and never touches an entry again;
\* the mask appended at 0-based iteration i has one row per batch row,
\* finished rows included, of max_length - 1 - i candidate positions; what it
\* returns is that list, of exactly max(max_length - 2, 0) masks.
TraceLength ==
    [][\A run \in Runs :
          LET before == select_masks[run]
              after == select_masks'[run]
          IN /\ SubSeq(after, 1, Len(before)) = before
             /\ IF SelectPass
                THEN /\ Len(after) = Len(before) + 1
                     /\ Len(after) = i + 1
                     /\ Len(after[i + 1]) = NumRows
                     /\ \A r \in Rows : Len(after[i + 1][r]) = max_depth - 1 - i
                ELSE after = before
             /\ pc' = "done" =>
                   /\ result'[run].select_masks = before
                   /\ Len(result'[run].select_masks) = Max(max_depth - 2, 0)
                   /\ \A k \in 0..(Len(before) - 1) : \A r \in Rows :
                         Len(result'[run].select_masks[k + 1][r])
                             = max_depth - 1 - k]_vars

\* forward has returned the one mask of a batch of width 3 in which a row of
\* one leaf, finished from the start, has its entry of two positions
TraceLengthWitness ==
    /\ pc = "done" /\ max_depth = 3
    /\ Len(result[1].select_masks) = 1
    /\ \E r \in Rows : length[r] = 1 /\ Len(result[1].select_masks[1][r]) = 2
    /\ \E r \in Rows : length[r] = 3

\* ------------------------------------------------------ span marks validity
\* C26 -- span marks validity: after every iteration k, in a row of true
\* length L >= 1 the span length is at least 1 at each of the first
\* max(L - k, 1) slots and exactly 0 at every slot after them: a padding slot
\* never acquires span and no surviving node has span 0.
SpanMarksValidity ==
    \A run \in Runs : \A r \in Rows :
        LET live == Max(length[r] - Iterations, 1)
            spans == state[run].lens[r]
        IN /\ Len(spans) = max_depth - Iterations
           /\ live <= Len(spans)
           /\ \A j \in 1..Len(spans) :
                 IF j <= live THEN spans[j] >= 1 ELSE spans[j] = 0

\* after the first iteration of a batch of width 3: a row of two leaves
\* holds its root and an empty slot, a row of one leaf its leaf and an empty
\* slot
SpanMarksValidityWitness ==
    /\ pc = "loop" /\ max_depth = 3 /\ Iterations = 1
    /\ \E r \in Rows : length[r] = 2 /\ state[1].lens[r] = <<2, 0>>
    /\ \E r \in Rows : length[r] = 1 /\ state[1].lens[r] = <<1, 0>>

\* ------------------------------------------ checkpoint on strict improvement
\* the validation block is run by this step
ValidationStep ==
    /\ train_pc = "after_batch"
    /\ train_pc' # "crashed"
    /\ IsValidationPoint(batch_iter, ValidateEvery(num_train_batches))

EpochProgressPast(iterations) ==
    IF loader_epoch = "fraction"
    THEN iterations > max_epoch * num_train_batches
    ELSE iterations \div num_train_batches > max_epoch

\* the loop is left by this step
LoopExit == train_pc # "stopped" /\ train_pc' = "stopped"

\* C28 -- SST loop termination: the loop of sst/train.py is left only by the
\* break at a validation point (batch_iter + 1 a multiple of validate_every)
\* at which the loader's epoch progress is strictly greater than max_epoch,
\* never by a training batch between validation points; the loader
\* repeating endlessly, the loop terminates, at the first validation point
\* past max_epoch: validate_every batches before its last batch the progress
\* was not yet past max_epoch.  (With validate_every = 0 the loop has no
\* validation point; the failure of the modulus ends it after its first
\* batch.)
SstLoopTermination ==
    /\ [][LoopExit =>
            /\ train_pc = "after_batch"
            /\ ValidateEvery(num_train_batches) >= 1
            /\ (batch_iter + 1) % ValidateEvery(num_train_batches) = 0
            /\ EpochProgressPast(batch_iter + 1)]_vars
    /\ [](train_pc = "crashed" => ValidateEvery(num_train_batches) = 0)
    /\ [](ValidateEvery(num_train_batches) >= 1 =>
            LET back == batch_iter + 1 - ValidateEvery(num_train_batches)
            IN back >= 1 => ~EpochProgressPast(back))
    /\ <>(train_pc \in {"stopped", "crashed"})
    /\ (ValidateEvery(num_train_batches) >= 1 => <>(train_pc = "stopped"))

\* the loop over 25 batches an epoch, validating every 2 batches, has been
\* left with max_epoch = 1 after 26 batches, the first validation point past
\* one epoch
SstLoopTerminationWitness ==
    /\ script_name = "sst" /\ loader_epoch = "fraction"
    /\ num_train_batches = 25 /\ max_epoch = 1
    /\ train_pc = "stopped"
    /\ batch_iter + 1 = 26

\* ------------------------------------------------ validation interval edge
\* the validation block is entered by this step
ValidationRuns == validations' = validations + 1
\* training is aborted by this step
Aborts == train_pc' = "crashed"
\* nothing was validated or saved, and one batch was run
AfterFirstBatchOnly ==
    /\ epoch_num = 0 /\ batch_iter = 0
    /\ validations = 0 /\ test_evals = 0 /\ checkpoints = << >>

\* the statement as first given, for the train functions of src/train.py,
\* sst/train.py and snli/train.py: with num_train_batches >= 10 validation
\* runs exactly when batch_iter + 1 is a multiple of validate_every
ValidationIntervalFromTen ==
    [][(/\ script_name \in {"train", "sst", "snli"}
        /\ train_pc = "after_batch"
        /\ num_train_batches >= ValidateDivisor) =>
          (ValidationRuns <=>
              (batch_iter + 1) % (num_train_batches \div ValidateDivisor) = 0)]_vars

\* C29 -- validation interval edge case: after each training batch
\* batch_iter + 1 is reduced modulo validate_every = num_train_batches // 10,
\* and in src/train.py and in train_withsampleRL of snli/train.py modulo
\* num_train_batches // 100 before that.  When neither modulus is 0 (at
\* least 10 batches an epoch, at least 100 in those two loops) validation
\* runs exactly when batch_iter + 1 is a multiple of validate_every; when one
\* is 0 the first training batch is followed by a division-by-zero failure
\* that aborts training before any validation or checkpoint.
ValidationIntervalEdge ==
    [][LET few == \/ num_train_batches < ValidateDivisor
                  \/ /\ script_name \in {"train", "snli_rl"}
                     /\ num_train_batches < ProgressDivisor
       IN /\ train_pc = "after_batch" =>
                IF few
                THEN Aborts /\ AfterFirstBatchOnly /\ AfterFirstBatchOnly'
                ELSE /\ ~Aborts
                     /\ ValidationRuns <=>
                           (batch_iter + 1) % (num_train_batches \div ValidateDivisor) = 0
          /\ train_pc # "after_batch" => ~ValidationRuns /\ ~Aborts
          /\ ~ValidationRuns => validations' = validations]_vars

\* src/train.py with 25 batches an epoch: validate_every is 2, the progress
\* interval is 0, and training has been aborted after its first batch
ValidationIntervalEdgeWitness ==
    /\ script_name = "train" /\ num_train_batches = 25
    /\ train_pc = "crashed"
    /\ AfterFirstBatchOnly


\* ------------------------------------------------ multi-sample training step
\* train_rl_iter of src/train.py and run_iter of train_withsampleRL in
\* sst/train.py and snli/train.py, from the model's outputs to final_probs
SampleNums == {1, 2}
Labels == {0, 1}
\* the words a sampled tree may have log-probabilities for
KeySets == {{"a"}, {"a", "b"}}

\* the n-th log-probability in dict d of sample k: negative, and different
\* from every other one of the batch
LogProb(k, d, n) == 0 - (n + 3 * (d - 1) + 6 * (k - 1))
\* one dict of sample k; a word that is not a key is given the empty list
ProbDict(k, d, keys) ==
    [w \in Words |->
        IF w \notin keys THEN << >>
        ELSE IF w = "a" THEN <<LogProb(k, d, 1)>>
        ELSE <<LogProb(k, d, 2), LogProb(k, d, 3)>>]

\* label.unsqueeze(1).expand(-1, sample_num): one row a label, sample_num
\* copies of it
Expand(lab, n) == [r \in 1..Len(lab) |-> [c \in 1..n |-> lab[r]]]
\* .contiguous().view(-1): the rows one after the other
Flatten(mat, n) ==
    [k \in 1..(Len(mat) * n) |-> mat[((k - 1) \div n) + 1][((k - 1) % n) + 1]]
\* the labels tiled: the whole batch, sample_num times over
SampleLabelGtTiled(lab, n) ==
    [k \in 1..(Len(lab) * n) |-> lab[((k - 1) % Len(lab)) + 1]]
SampleLabelGt(lab, n) == Flatten(Expand(lab, n), n)
\* torch.eq(sample_label_gt, sample_label_pred).float() * 2 - 1
RlRewards(gt, pred) ==
    [k \in 1..Len(gt) |-> (IF gt[k] = pred[k] THEN 1 ELSE 0) * 2 - 1]

\* for w in probs[k]: final_probs[w] += [p*rl_rewards[k] for p in probs[k][w]]
AddDict(fp, dict, reward) ==
    [w \in Words |-> fp[w] \o [n \in 1..Len(dict[w]) |-> dict[w][n] * reward]]
\* probs[k], and in snli/train.py pre_probs[k] and then hyp_probs[k]
RECURSIVE AddDicts(_, _, _, _)
AddDicts(fp, dicts, d, reward) ==
    IF d > Len(dicts) THEN fp
    ELSE AddDicts(AddDict(fp, dicts[d], reward), dicts, d + 1, reward)
\* for j in range(sample_num): k = i * sample_num + j
RECURSIVE SampleLoop(_, _, _, _, _, _)
SampleLoop(fp, row, j, n, pr, rewards) ==
    IF j >= n THEN fp
    ELSE LET k == row * n + j
         IN SampleLoop(AddDicts(fp, pr[k + 1], 1, rewards[k + 1]),
                       row, j + 1, n, pr, rewards)
\* for i in range(len(label))
RECURSIVE RowLoop(_, _, _, _, _, _)
RowLoop(fp, row, rows, n, pr, rewards) ==
    IF row >= rows THEN fp
    ELSE RowLoop(SampleLoop(fp, row, 0, n, pr, rewards), row + 1, rows, n, pr, rewards)
FinalProbs(rows, n, pr, rewards) == RowLoop(NoProbs, 0, rows, n, pr, rewards)

\* a batch of 1..NumRows rows with its labels, and the model's outputs for
\* sample_num sampled trees a row: a prediction and one dict of
\* log-probabilities (two in snli/train.py) for each
InitRl ==
    /\ ForwardIdle
    /\ RoutingIdle
    /\ TrainerIdle
    /\ rl_pc = "batch"
    /\ label \in UNION {[1..rows -> Labels] : rows \in 1..NumRows}
    /\ sample_num \in SampleNums
    /\ sample_label_pred \in [1..(Len(label) * sample_num) -> Labels]
    /\ \E dicts \in 1..2 :
       \E keys \in [1..(Len(label) * sample_num) -> KeySets] :
       \E hyp_keys \in KeySets :
          probs = [k \in 1..(Len(label) * sample_num) |->
                     [d \in 1..dicts |->
                         ProbDict(k, d, IF d = 1 THEN keys[k] ELSE hyp_keys)]]
    /\ sample_label_gt = << >>
    /\ rl_rewards = << >>
    /\ final_probs = NoProbs

\* the rewards and the weighted log-probabilities of one training step
TrainRlIter ==
    /\ rl_pc = "batch"
    /\ sample_label_gt' = SampleLabelGt(label, sample_num)
    /\ rl_rewards' = RlRewards(sample_label_gt', sample_label_pred)
    /\ final_probs' = FinalProbs(Len(label), sample_num, probs, rl_rewards')
    /\ rl_pc' = "done"
    /\ UNCHANGED <<batch, module, locals, script, routing, trainer, label, sample_num,
                   sample_label_pred, probs>>

SpecRl == InitRl /\ [][TrainRlIter]_vars

\* the reward the sample at flat index k (from 0) is due: +1 when its
\* prediction is the label of row k // sample_num, -1 otherwise
RewardDue(k) ==
    IF sample_label_pred[k + 1] = label[(k \div sample_num) + 1] THEN 1 ELSE 0 - 1
\* absolute value
Abs(x) == IF x < 0 THEN 0 - x ELSE x

\* C30 -- RL reward alignment: after the multi-sample training step, for
\* every batch row i and every sample j < sample_num the sample at flat
\* index k = i*sample_num + j is compared with label[i], its reward is +1
\* when its prediction equals that label and -1 otherwise, and every
\* log-probability of sample k occurs in final_probs exactly once, multiplied
\* by the reward of sample k; final_probs holds nothing else.
RewardAlignment ==
    rl_pc = "done" =>
       /\ Len(rl_rewards) = Len(label) * sample_num
       /\ \A row \in 0..(Len(label) - 1) : \A j \in 0..(sample_num - 1) :
             LET k == row * sample_num + j
             IN /\ sample_label_gt[k + 1] = label[row + 1]
                /\ rl_rewards[k + 1] = RewardDue(k)
                /\ \A d \in 1..Len(probs[k + 1]) : \A w \in Words :
                   \A n \in 1..Len(probs[k + 1][d][w]) :
                      LET p == probs[k + 1][d][w][n]
                          at == {m \in 1..Len(final_probs[w]) :
                                    Abs(final_probs[w][m]) = Abs(p)}
                      IN /\ Cardinality(at) = 1
                         /\ \A m \in at : final_probs[w][m] = p * RewardDue(k)
       /\ \A w \in Words : \A m \in 1..Len(final_probs[w]) :
             \E k \in 1..Len(probs) : \E d \in 1..Len(probs[k]) :
             \E n \in 1..Len(probs[k][d][w]) :
                Abs(final_probs[w][m]) = Abs(probs[k][d][w][n])

\* two rows with labels 0 and 1 and two samples a row, all four predicting
\* 0: the samples of row 0 are rewarded, those of row 1 are not
RewardAlignmentWitness ==
    /\ rl_pc = "done"
    /\ label = <<0, 1>> /\ sample_num = 2
    /\ sample_label_pred = <<0, 0, 0, 0>>
    /\ sample_label_gt = <<0, 0, 1, 1>>
    /\ rl_rewards = <<1, 1, 0 - 1, 0 - 1>>
    /\ Len(probs[1]) = 2
    /\ final_probs["a"] = <<0 - 1, 0 - 4, 0 - 7, 0 - 10, 13, 16, 19, 22>>

====
